---- MODULE Spec2Model ----
(***************************************************************************)
(* Model of the Audac TCP client (custom_components/audac/client.py) and   *)
(* of the polling coordinator (coordinator.py).                            *)
(*                                                                         *)
(* Text is a sequence of one-character strings, so that split, strip,      *)
(* join, int() and str() are computed the way the Python code computes     *)
(* them.  One action is one run of a coroutine from one await to the next: *)
(* asyncio runs the code between two awaits without interleaving.          *)
(***************************************************************************)
EXTENDS Integers, Sequences, FiniteSets, TLC

(***************************************************************************)
(* Bounds of the model.                                                    *)
(***************************************************************************)
\* Number of zones of the matrix mixer (4 or 8 on the real devices).
ZoneCount == 2
\* self._timeout, counted in clock ticks.
TimeoutTicks == 2
\* Lines one exchange reads at most before the stream ends or stalls.
MaxLines == 2
\* Connections left open by earlier exchanges that are tracked at most.
MaxLeaked == 1

\* Number of slots of the modular player (XMP_SLOT_COUNT is 4).
SlotCount == 2

Zones == 1..ZoneCount
Slots == 1..SlotCount

(***************************************************************************)
(* Text helpers.                                                           *)
(***************************************************************************)
Bar == "|"
Hash == "#"
Caret == "^"
\* One character outside ASCII (any such character behaves the same).
NonAscii == "U+00E9"
Whitespace == {" ", "\t", "\r", "\n"}
Digits == <<"0", "1", "2", "3", "4", "5", "6", "7", "8", "9">>
CRLF == <<"\r", "\n">>

IsDigit(c) == \E i \in 1..10 : Digits[i] = c
DigitVal(c) == (CHOOSE i \in 1..10 : Digits[i] = c) - 1

\* str.strip(): leading and trailing whitespace removed.
RECURSIVE LStrip(_)
LStrip(s) ==
    IF s # <<>> /\ Head(s) \in Whitespace THEN LStrip(Tail(s)) ELSE s

RECURSIVE RStrip(_)
RStrip(s) ==
    IF s # <<>> /\ s[Len(s)] \in Whitespace
    THEN RStrip(SubSeq(s, 1, Len(s) - 1))
    ELSE s

Strip(s) == RStrip(LStrip(s))

\* str.split(sep): the fields between the separators, at least one field.
RECURSIVE Split(_, _)
Split(s, sep) ==
    IF \A i \in 1..Len(s) : s[i] # sep
    THEN <<s>>
    ELSE LET i == CHOOSE k \in 1..Len(s) :
                      s[k] = sep /\ \A j \in 1..(k - 1) : s[j] # sep
         IN  <<SubSeq(s, 1, i - 1)>> \o Split(SubSeq(s, i + 1, Len(s)), sep)

\* sep.join(items)
RECURSIVE Join(_, _)
Join(sep, items) ==
    IF items = <<>> THEN <<>>
    ELSE IF Len(items) = 1 THEN items[1]
    ELSE items[1] \o <<sep>> \o Join(sep, Tail(items))

\* str.replace(c, ""): every occurrence of the character removed.
RECURSIVE Remove(_, _)
Remove(s, c) ==
    IF s = <<>> THEN <<>>
    ELSE IF Head(s) = c THEN Remove(Tail(s), c)
    ELSE <<Head(s)>> \o Remove(Tail(s), c)

\* encode("ascii", errors="ignore") and decode("ascii", errors="ignore"):
\* characters outside ASCII are dropped.
EncodeAscii(s) == Remove(s, NonAscii)
DecodeAscii(b) == Remove(b, NonAscii)

\* str(n) for an integer n.
RECURSIVE NatToStr(_)
NatToStr(n) ==
    IF n < 10 THEN <<Digits[n + 1]>>
    ELSE NatToStr(n \div 10) \o <<Digits[(n % 10) + 1]>>

IntToStr(n) == IF n < 0 THEN <<"-">> \o NatToStr(0 - n) ELSE NatToStr(n)

RECURSIVE DigitsVal(_, _)
DigitsVal(s, acc) ==
    IF s = <<>> THEN acc ELSE DigitsVal(Tail(s), 10 * acc + DigitVal(Head(s)))

\* int(text): surrounding whitespace and one sign are allowed, then only
\* decimal digits, at least one.  ok = FALSE stands for ValueError.
\* (The underscore digit separators int() also accepts are not modelled.)
ParseInt(text) ==
    LET t == Strip(text)
        signed == t # <<>> /\ Head(t) \in {"+", "-"}
        body == IF signed THEN Tail(t) ELSE t
        good == body # <<>> /\ \A i \in 1..Len(body) : IsDigit(body[i])
        mag == IF good THEN DigitsVal(body, 0) ELSE 0
    IN  [ok |-> good,
         value |-> IF signed /\ Head(t) = "-" THEN 0 - mag ELSE mag]

(***************************************************************************)
(* Literals of the protocol.                                               *)
(***************************************************************************)
GVALL == <<"G", "V", "A", "L", "L">>
VALL == <<"V", "A", "L", "L">>
GRALL == <<"G", "R", "A", "L", "L">>
RALL == <<"R", "A", "L", "L">>
GMALL == <<"G", "M", "A", "L", "L">>
MALL == <<"M", "A", "L", "L">>
GSV == <<"G", "S", "V">>
SV == <<"S", "V">>
\* MTX_OK, the acknowledgement of a mutation.
SR == <<"S", "R">>
SM == <<"S", "M">>
SOG == <<"S", "O", "G">>
SPAIR == <<"S", "P", "A", "I", "R">>
SSTR == <<"S", "S", "T", "R">>

MTX_OK == <<"+">>
\* DEFAULT_DEVICE_ADDRESS and DEFAULT_SOURCE_ID_MTX.
DEFAULT_DEVICE_ADDRESS == <<"X", "0", "0", "1">>
DEFAULT_SOURCE_ID_MTX == <<"m", "t", "x">>

\* _AudacBaseTcpClient.__init__: the source id is cleaned of the frame
\* delimiters, defaulted to "ha" and cut to 4 characters.
CleanSourceId(source_id) ==
    LET cleaned_source == Remove(Remove(source_id, Bar), Hash)
        chosen == IF cleaned_source = <<>> THEN <<"h", "a">> ELSE cleaned_source
    IN  SubSeq(chosen, 1, IF Len(chosen) < 4 THEN Len(chosen) ELSE 4)

self_source_id == CleanSourceId(DEFAULT_SOURCE_ID_MTX)
self_device_address == DEFAULT_DEVICE_ADDRESS

\* _send_once, the payload written:
\* f"#|{device_address}|{source_id}|{command}|{argument}|U|\r\n" as ASCII.
Payload(command, argument) ==
    EncodeAscii(<<Hash, Bar>> \o self_device_address \o <<Bar>> \o self_source_id
                \o <<Bar>> \o command \o <<Bar>> \o argument
                \o <<Bar, "U", Bar>> \o CRLF)

\* The same for a client constructed with the given source_id (lines 40-41
\* and 104-111).
PayloadOf(source_id, command, argument) ==
    EncodeAscii(<<Hash, Bar>> \o self_device_address \o <<Bar>>
                \o CleanSourceId(source_id)
                \o <<Bar>> \o command \o <<Bar>> \o argument
                \o <<Bar, "U", Bar>> \o CRLF)

(***************************************************************************)
(* Errors.  Every error the client raises is an AudacApiError; kind is     *)
(* the message it carries, attempt the exchange attempt of the dispatcher  *)
(* call that created it (0: not created by an exchange), detail the text   *)
(* its message inserts (a zone, a count, a label).                         *)
(***************************************************************************)
Err(kind, attempt, detail) == [kind |-> kind, attempt |-> attempt, detail |-> detail]
NoError == Err("none", 0, <<>>)

\* What a call returns or raises: a frame's command and argument, or an error.
Returned(command, argument) ==
    [ok |-> TRUE, command |-> command, argument |-> argument, err |-> NoError]
Raised(err) == [ok |-> FALSE, command |-> <<>>, argument |-> <<>>, err |-> err]

\* accept_commands: a set of command tags, or None.
AcceptOnly(tags) == [some |-> TRUE, tags |-> tags]
AcceptAny == [some |-> FALSE, tags |-> {}]

(***************************************************************************)
(* _send_once, the handling of one received line (lines 121-145).          *)
(***************************************************************************)
\* A variant that returns the first well-formed frame whatever its command.
ParseLineUnfiltered(raw, accept_commands) ==
    LET line == Strip(DecodeAscii(raw))
        parts == Split(line, Bar)
    IN  IF Len(parts) < 6 \/ parts[1] # <<Hash>>
        THEN [skip |-> TRUE, command |-> <<>>, argument |-> <<>>]
        ELSE [skip |-> FALSE, command |-> Strip(parts[4]),
              argument |-> Strip(parts[5])]

\* A variant that does not look at the start marker.
ParseLineAnyStart(raw, accept_commands) ==
    LET line == Strip(DecodeAscii(raw))
        parts == Split(line, Bar)
    IN  IF Len(parts) < 6
        THEN [skip |-> TRUE, command |-> <<>>, argument |-> <<>>]
        ELSE IF accept_commands.some /\ Strip(parts[4]) \notin accept_commands.tags
        THEN [skip |-> TRUE, command |-> <<>>, argument |-> <<>>]
        ELSE [skip |-> FALSE, command |-> Strip(parts[4]),
              argument |-> Strip(parts[5])]

\* A variant that takes only frames addressed to this client by its device.
ParseLineChecksAddress(raw, accept_commands) ==
    LET line == Strip(DecodeAscii(raw))
        parts == Split(line, Bar)
    IN  IF Len(parts) < 6 \/ parts[1] # <<Hash>>
           \/ parts[2] # self_source_id \/ parts[3] # self_device_address
        THEN [skip |-> TRUE, command |-> <<>>, argument |-> <<>>]
        ELSE IF accept_commands.some /\ Strip(parts[4]) \notin accept_commands.tags
        THEN [skip |-> TRUE, command |-> <<>>, argument |-> <<>>]
        ELSE [skip |-> FALSE, command |-> Strip(parts[4]),
              argument |-> Strip(parts[5])]

\* The six fields of a line, or skip when the line is no well-formed frame
\* or its command is not accepted.
ParseLine(raw, accept_commands) ==
    LET line == Strip(DecodeAscii(raw))
        parts == Split(line, Bar)
    IN  IF Len(parts) < 6
        THEN [skip |-> TRUE, command |-> <<>>, argument |-> <<>>]
        ELSE LET start == parts[1]
                 rep_command == Strip(parts[4])
                 rep_argument == parts[5]
             IN  IF start # <<Hash>>
                 THEN [skip |-> TRUE, command |-> <<>>, argument |-> <<>>]
                 ELSE IF accept_commands.some /\ rep_command \notin accept_commands.tags
                 THEN [skip |-> TRUE, command |-> <<>>, argument |-> <<>>]
                 ELSE [skip |-> FALSE, command |-> rep_command,
                       argument |-> Strip(rep_argument)]

\* A variant that does not look at accept_commands.
NoFrameErrorUnfiltered(raw, accept_commands, attempt) ==
    IF raw = <<>> THEN Err("EmptyReply", attempt, <<>>)
    ELSE Err("InvalidFrame", attempt, <<>>)

\* _send_once, after the read loop (lines 155-163): the error of an exchange
\* that found no frame.
NoFrameError(raw, accept_commands, attempt) ==
    IF raw = <<>> THEN Err("EmptyReply", attempt, <<>>)
    ELSE IF accept_commands.some THEN Err("NoExpectedReply", attempt, <<>>)
    ELSE Err("InvalidFrame", attempt, <<>>)

(***************************************************************************)
(* _send, the retry loop (lines 78-92).                                    *)
(***************************************************************************)
\* attempts = 3
Attempts == 3
\* A variant with a constant delay between the attempts.
BackoffFlat(attempt) == 15

\* asyncio.sleep(0.15 * attempt), in hundredths of a second.
Backoff(attempt) == 15 * attempt

(***************************************************************************)
(* AudacMtxClient: the pure parts of async_get_state.                      *)
(***************************************************************************)
\* An optional string.
Some(t) == [some |-> TRUE, val |-> t]
NoneText == [some |-> FALSE, val |-> <<>>]

\* MtxState(firmware, zones) and the absence of one.
NoState == [firmware |-> NoneText, zones |-> <<>>]

LabelVolume == <<"v", "o", "l", "u", "m", "e">>
LabelRouting == <<"r", "o", "u", "t", "i", "n", "g">>
LabelMute == <<"m", "u", "t", "e">>

\* The non-blank items of a list of texts, each stripped.
RECURSIVE NonBlankStripped(_)
NonBlankStripped(items) ==
    IF items = <<>> THEN <<>>
    ELSE IF Strip(Head(items)) # <<>>
    THEN <<Strip(Head(items))>> \o NonBlankStripped(Tail(items))
    ELSE NonBlankStripped(Tail(items))

\* A variant that keeps the blank items.
SplitListKeepsBlank(raw, label) ==
    LET values == [i \in 1..Len(Split(raw, Caret)) |-> Strip(Split(raw, Caret)[i])]
    IN  IF values = <<>>
        THEN [ok |-> FALSE, values |-> <<>>, err |-> Err("EmptyList", 0, label)]
        ELSE [ok |-> TRUE, values |-> values, err |-> NoError]

\* _split_list(raw, label)
SplitList(raw, label) ==
    LET values == NonBlankStripped(Split(raw, Caret))
    IN  IF values = <<>>
        THEN [ok |-> FALSE, values |-> <<>>, err |-> Err("EmptyList", 0, label)]
        ELSE [ok |-> TRUE, values |-> values, err |-> NoError]

\* A variant that builds a zone for every volume token.
ZonesFromAllTokens(zone, zone_count, volumes, sources, mutes) ==
    IF \/ Len(volumes) < zone_count
       \/ Len(sources) < Len(volumes)
       \/ Len(mutes) < Len(volumes)
    THEN [ok |-> FALSE, zones |-> <<>>,
          err |-> Err("TooFewValues", 0, IntToStr(zone_count))]
    ELSE IF \E z \in 1..Len(volumes) : ~ParseInt(volumes[z]).ok
    THEN [ok |-> FALSE, zones |-> <<>>, err |-> Err("InvalidVolume", 0, <<>>)]
    ELSE [ok |-> TRUE,
          zones |-> [z \in 1..Len(volumes) |->
                        [volume_db |-> ParseInt(volumes[z]).value,
                         source |-> sources[z],
                         mute |-> (mutes[z] = <<"1">>)]],
          err |-> NoError]

\* async_get_state, the loop over the zones (lines 227-248), from `zone` on.
RECURSIVE ZonesFrom(_, _, _, _, _)
ZonesFrom(zone, zone_count, volumes, sources, mutes) ==
    IF zone > zone_count
    THEN [ok |-> TRUE, zones |-> <<>>, err |-> NoError]
    ELSE IF zone > Len(volumes) \/ zone > Len(sources) \/ zone > Len(mutes)
    THEN [ok |-> FALSE, zones |-> <<>>,
          err |-> Err("TooFewValues", 0, IntToStr(zone_count))]
    ELSE IF ~ParseInt(volumes[zone]).ok
    THEN [ok |-> FALSE, zones |-> <<>>,
          err |-> Err("InvalidVolume", 0, IntToStr(zone))]
    ELSE LET rest == ZonesFrom(zone + 1, zone_count, volumes, sources, mutes)
             zone_state == [volume_db |-> ParseInt(volumes[zone]).value,
                            source |-> sources[zone],
                            mute |-> (mutes[zone] = <<"1">>)]
         IN  IF rest.ok
             THEN [ok |-> TRUE, zones |-> <<zone_state>> \o rest.zones,
                   err |-> NoError]
             ELSE rest

\* async_get_state, from the three list replies and the firmware to the
\* MtxState returned or the error raised (lines 223-250).
BuildState(zone_count, vol, routing, mute, fw) ==
    LET volumes == SplitList(vol, LabelVolume)
        sources == SplitList(routing, LabelRouting)
        mutes == SplitList(mute, LabelMute)
    IN  IF ~volumes.ok THEN [ok |-> FALSE, state |-> NoState, err |-> volumes.err]
        ELSE IF ~sources.ok THEN [ok |-> FALSE, state |-> NoState, err |-> sources.err]
        ELSE IF ~mutes.ok THEN [ok |-> FALSE, state |-> NoState, err |-> mutes.err]
        ELSE LET built == ZonesFrom(1, zone_count, volumes.values,
                                    sources.values, mutes.values)
             IN  IF built.ok
                 THEN [ok |-> TRUE,
                       state |-> [firmware |-> fw, zones |-> built.zones],
                       err |-> NoError]
                 ELSE [ok |-> FALSE, state |-> NoState, err |-> built.err]

\* A variant that takes the default value whatever the history holds.
FallbackValueDefaults(previous_zones, zone, field) ==
    IF field = "mute" THEN <<"1">> ELSE <<"0">>

\* _list_with_fallback, the value appended for one zone (lines 269-274).
\* A zone missing from previous_zones yields default_value, the string "0",
\* and bool() of a non-empty string is True.
FallbackValue(previous_zones, zone, field) ==
    LET default_value == <<"0">>
        known == zone \in DOMAIN previous_zones
    IN  CASE field = "volume" ->
               IF known THEN IntToStr(previous_zones[zone].volume) ELSE default_value
          [] field = "source" ->
               IF known THEN previous_zones[zone].source ELSE default_value
          [] field = "mute" ->
               IF (IF known THEN previous_zones[zone].mute ELSE default_value # <<>>)
               THEN <<"1">> ELSE <<"0">>

\* _list_with_fallback, "^".join(fallback_values) (lines 267-281).
FallbackList(previous_zones, zone_count, field) ==
    Join(Caret, [zone \in 1..zone_count |->
                    FallbackValue(previous_zones, zone, field)])

\* A variant that falls back to the defaults when there is no history.
ListWithFallbackAlways(res, previous_zones, zone_count, field) ==
    IF res.ok
    THEN [ok |-> TRUE, value |-> res.argument, fell_back |-> FALSE, err |-> NoError]
    ELSE [ok |-> TRUE, value |-> FallbackList(previous_zones, zone_count, field),
          fell_back |-> TRUE, err |-> NoError]

\* A variant that raises the error again whatever the history holds.
ListWithFallbackRaises(res, previous_zones, zone_count, field) ==
    IF res.ok
    THEN [ok |-> TRUE, value |-> res.argument, fell_back |-> FALSE, err |-> NoError]
    ELSE [ok |-> FALSE, value |-> <<>>, fell_back |-> FALSE, err |-> res.err]

\* A variant that takes the history whenever there is one.
ListWithFallbackPrefersHistory(res, previous_zones, zone_count, field) ==
    IF previous_zones # <<>>
    THEN [ok |-> TRUE, value |-> FallbackList(previous_zones, zone_count, field),
          fell_back |-> TRUE, err |-> NoError]
    ELSE IF res.ok
    THEN [ok |-> TRUE, value |-> res.argument, fell_back |-> FALSE, err |-> NoError]
    ELSE [ok |-> FALSE, value |-> <<>>, fell_back |-> FALSE, err |-> res.err]

\* _list_with_fallback, around the reply of _command_expect (lines 262-281):
\* the list returned, or the error raised again when there is no history.
ListWithFallback(res, previous_zones, zone_count, field) ==
    IF res.ok
    THEN [ok |-> TRUE, value |-> res.argument, fell_back |-> FALSE, err |-> NoError]
    ELSE IF previous_zones = <<>>
    THEN [ok |-> FALSE, value |-> <<>>, fell_back |-> FALSE, err |-> res.err]
    ELSE [ok |-> TRUE, value |-> FallbackList(previous_zones, zone_count, field),
          fell_back |-> TRUE, err |-> NoError]

(***************************************************************************)
(* AudacXmpClient: the pure parts of async_get_state.                      *)
(***************************************************************************)
GTPS == <<"G", "T", "P", "S">>
TPS == <<"T", "P", "S">>

XMP_MODULE_AUTO == <<"a", "u", "t", "o">>
XMP_MODULE_NONE == <<"n", "o", "n", "e">>
XMP_MODULE_NMP40 == <<"n", "m", "p", "4", "0">>
XMP_MODULE_IMP40 == <<"i", "m", "p", "4", "0">>
XMP_MODULE_FMP40 == <<"f", "m", "p", "4", "0">>
XMP_MODULE_RMP40 == <<"r", "m", "p", "4", "0">>
XMP_MODULE_DMP42 == <<"d", "m", "p", "4", "2">>
XMP_MODULE_BMP42 == <<"b", "m", "p", "4", "2">>

\* str.lower(), for the ASCII letters.
UpperLetters ==
    <<"A", "B", "C", "D", "E", "F", "G", "H", "I", "J", "K", "L", "M",
      "N", "O", "P", "Q", "R", "S", "T", "U", "V", "W", "X", "Y", "Z">>
LowerLetters ==
    <<"a", "b", "c", "d", "e", "f", "g", "h", "i", "j", "k", "l", "m",
      "n", "o", "p", "q", "r", "s", "t", "u", "v", "w", "x", "y", "z">>
LowerChar(c) ==
    IF \E i \in 1..26 : UpperLetters[i] = c
    THEN LowerLetters[CHOOSE i \in 1..26 : UpperLetters[i] = c]
    ELSE c
Lower(text) == [i \in 1..Len(text) |-> LowerChar(text[i])]

\* normalize_xmp_module (const.py lines 65-70)
normalize_xmp_module(value) ==
    LET module == Lower(Strip(value))
    IN  IF module = XMP_MODULE_RMP40 THEN XMP_MODULE_FMP40 ELSE module

\* _TYPE_TO_MODULE.get(type_id, XMP_MODULE_NMP40)
TypeToModule(type_id) ==
    CASE type_id = 1 -> XMP_MODULE_DMP42
      [] type_id = 4 -> XMP_MODULE_IMP40
      [] type_id = 6 -> XMP_MODULE_FMP40
      [] type_id = 8 -> XMP_MODULE_BMP42
      [] type_id = 15 -> XMP_MODULE_NONE
      [] type_id = 255 -> XMP_MODULE_NONE
      [] OTHER -> XMP_MODULE_NMP40

\* _parse_tps(raw, slot_count): the module detected for each of the first
\* slot_count non-blank items; an item that is no integer counts as type 15.
ParseTps(raw, slot_count) ==
    LET parts == NonBlankStripped(Split(raw, Caret))
        numeric_part ==
            SubSeq(parts, 1, IF Len(parts) < slot_count THEN Len(parts) ELSE slot_count)
    IN  [idx \in 1..Len(numeric_part) |->
            TypeToModule(IF ParseInt(numeric_part[idx]).ok
                         THEN ParseInt(numeric_part[idx]).value
                         ELSE 15)]

\* An optional integer.
SomeInt(n) == [some |-> TRUE, val |-> n]
NoneInt == [some |-> FALSE, val |-> 0]

\* The per-slot queries of async_get_state in their order (lines 349-355):
\* the field, the command prefix and the reply tag prefix.
XmpQueries ==
    <<[field |-> "gain", get |-> <<"G", "O", "G">>, tag |-> <<"O", "G">>],
      [field |-> "player_status", get |-> <<"G", "P", "S", "T", "A", "T">>,
       tag |-> <<"P", "S", "T", "A", "T">>],
      [field |-> "song", get |-> <<"G", "S", "O", "N">>, tag |-> <<"S", "O", "N">>],
      [field |-> "station", get |-> <<"G", "S", "T", "N">>, tag |-> <<"S", "T", "N">>],
      [field |-> "program", get |-> <<"G", "P", "R", "G", "N">>,
       tag |-> <<"P", "R", "G", "N">>],
      [field |-> "info", get |-> <<"G", "B", "M", "P", "I">>,
       tag |-> <<"B", "M", "P", "I">>],
      [field |-> "pairing", get |-> <<"G", "P", "A", "I", "R", "S">>,
       tag |-> <<"P", "A", "I", "R", "S">>]>>

XmpCommand(query, slot) == XmpQueries[query].get \o IntToStr(slot)
XmpReplyTag(query, slot) == XmpQueries[query].tag \o IntToStr(slot)

\* XmpSlotState with no field queried yet.
XmpSlotState(module) ==
    [module |-> module, module_label |-> NoneText, gain |-> NoneInt,
     player_status |-> NoneText, song |-> NoneText, station |-> NoneText,
     program |-> NoneText, info |-> NoneText, pairing |-> NoneText]

\* A variant that takes the configured module as it is written.
EffectiveModuleAsWritten(slot, configured_modules, detected) ==
    LET configured ==
            IF slot \in DOMAIN configured_modules
            THEN configured_modules[slot]
            ELSE XMP_MODULE_AUTO
    IN  IF configured # XMP_MODULE_AUTO THEN configured
        ELSE IF slot \in DOMAIN detected THEN detected[slot]
        ELSE XMP_MODULE_NONE

\* The module of a slot (lines 345-346): the configured one unless it is
\* "auto", else the detected one, else "none".
EffectiveModule(slot, configured_modules, detected) ==
    LET configured ==
            normalize_xmp_module(IF slot \in DOMAIN configured_modules
                                 THEN configured_modules[slot]
                                 ELSE XMP_MODULE_AUTO)
    IN  IF configured # XMP_MODULE_AUTO THEN configured
        ELSE IF slot \in DOMAIN detected THEN detected[slot]
        ELSE XMP_MODULE_NONE

\* _try_string and _try_int (lines 398-411), from the result of _command_expect.
TryString(res) == IF res.ok THEN Some(res.argument) ELSE NoneText
TryInt(res) ==
    LET value == TryString(res)
    IN  IF ~value.some THEN NoneInt
        ELSE IF ParseInt(value.val).ok THEN SomeInt(ParseInt(value.val).value)
        ELSE NoneInt

\* The slot state with the field of a query set from the query's result.
SetField(slot_state, field, res) ==
    CASE field = "gain" -> [slot_state EXCEPT !.gain = TryInt(res)]
      [] field = "player_status" -> [slot_state EXCEPT !.player_status = TryString(res)]
      [] field = "song" -> [slot_state EXCEPT !.song = TryString(res)]
      [] field = "station" -> [slot_state EXCEPT !.station = TryString(res)]
      [] field = "program" -> [slot_state EXCEPT !.program = TryString(res)]
      [] field = "info" -> [slot_state EXCEPT !.info = TryString(res)]
      [] field = "pairing" -> [slot_state EXCEPT !.pairing = TryString(res)]

\* _async_update_data, the dictionary returned for an XmpState
\* (coordinator.py lines 75-91).
XmpDataOf(state) ==
    [present |-> TRUE,
     firmware |-> NoneText,
     slots |-> [slot \in DOMAIN state.slots |-> state.slots[slot]]]

\* The models of an entry, and the trigger settings of a slot (const.py).
MODEL_MTX48 == <<"m", "t", "x", "4", "8">>
MODEL_XMP44 == <<"x", "m", "p", "4", "4">>
FMP_TRIGGER_MIN == 1
FMP_TRIGGER_MAX == 15
FMP_TRIGGER_ACTION_START == <<"s", "t", "a", "r", "t">>
FMP_TRIGGER_ACTION_STOP == <<"s", "t", "o", "p">>

\* coordinator.slot_modules of the modular-player entry.
SlotModules ==
    [slot \in Slots |-> IF slot = 1 THEN XMP_MODULE_AUTO ELSE <<"R", "M", "P", "4", "0">>]

(***************************************************************************)
(* AudacDataUpdateCoordinator: the pure parts.                             *)
(***************************************************************************)
\* _get_previous_zones: the zones of the stored data, empty when there are none.
GetPreviousZones(stored) ==
    IF ~stored.present THEN <<>>
    ELSE [zone \in DOMAIN stored.zones |->
            [volume |-> stored.zones[zone].volume,
             source |-> stored.zones[zone].source,
             mute |-> stored.zones[zone].mute]]

\* _async_update_data, the dictionary returned for an MtxState (lines 100-110).
DataOf(state) ==
    [present |-> TRUE,
     firmware |-> state.firmware,
     zones |-> [zone \in DOMAIN state.zones |->
                  [volume |-> state.zones[zone].volume_db,
                   source |-> state.zones[zone].source,
                   mute |-> state.zones[zone].mute]]]

(***************************************************************************)
(* State.                                                                  *)
(***************************************************************************)
VARIABLES
    pc,                   \* the await the running coroutine is suspended at
    call,                 \* the running top-level call and its arguments
    snd,                  \* locals of _send and of the wrapper that called it
    xch,                  \* locals of _send_once
    drv,                  \* locals of AudacMtxClient.async_get_state
    io,                   \* what the running dispatcher call did so far
    outcome,              \* what the last finished top-level call returned
    data,                 \* coordinator.data
    last_update_success,  \* coordinator.last_update_success
    dev,                  \* the device's zones
    now,                  \* time.monotonic(), in ticks
    leaked,               \* connections opened, never closed, no longer referenced
    down,                 \* the commands whose connections the network refuses
    model,                \* coordinator.model
    fmp_trigger_state,    \* coordinator._fmp_trigger_state
    hass                  \* hass.data[DOMAIN], hass.services, hass.http

vars == <<pc, call, snd, xch, drv, io, outcome, data, last_update_success,
          dev, now, leaked, down, model, fmp_trigger_state, hass>>

\* zone: the zone or slot; value, flag, source: the argument of a mutation;
\* refresh: the call comes from an entity, which requests a refresh after it.
NoCall == [op |-> "none", zone |-> 0, value |-> 0, flag |-> FALSE,
           source |-> <<>>, refresh |-> FALSE]
NoSnd == [via |-> "none", command |-> <<>>, argument |-> <<>>,
          reply_command |-> <<>>, accept_commands |-> AcceptAny,
          attempt |-> 0, last_error |-> NoError]
\* received: the lines read so far, in the order of arrival.
NoXch == [writer_open |-> FALSE, deadline |-> 0, raw |-> <<>>, received |-> <<>>,
          found |-> FALSE, command |-> <<>>, argument |-> <<>>]
NoDrv == [phase |-> "none", previous_zones |-> <<>>, vol |-> <<>>,
          routing |-> <<>>, mute |-> <<>>, fallbacks |-> {},
          slot |-> 0, query |-> 0, detected |-> <<>>, slots |-> <<>>,
          configured_modules |-> <<>>]
\* opens: calls of asyncio.open_connection; written: payloads handed to
\* writer.write; sleeps: arguments of asyncio.sleep, in hundredths of a second.
NoIO == [opens |-> 0, written |-> <<>>, sleeps |-> <<>>]
NoOutcome == [status |-> "none", call |-> NoCall, err |-> NoError,
              argument |-> <<>>, state |-> NoState, fallbacks |-> {}]
\* coordinator.data before the first successful refresh (None).
NoData == [present |-> FALSE, firmware |-> NoneText, zones |-> <<>>]
\* coordinator._fmp_trigger_state as __init__ leaves it (lines 62-69).
NoTriggerState ==
    [slot \in Slots |-> [action |-> FMP_TRIGGER_ACTION_START,
                         contact |-> FMP_TRIGGER_MIN,
                         description |-> NoneText]]
\* Home Assistant before any entry of the integration is set up:
\* entries are the entry ids that are keys of hass.data[DOMAIN],
\* static_registered is its key "_static_registered", registrations counts
\* the calls of hass.services.async_register since the service was last
\* absent (0: has_service is false), state is the state Home Assistant
\* keeps for each config entry, http tells whether hass.http exists.
MaxEntries == 4
EntryIds == 1 .. MaxEntries
NoHass ==
    [http |-> TRUE, entries |-> {}, static_registered |-> FALSE,
     registrations |-> 0,
     state |-> [entry \in EntryIds |-> "not_loaded"]]

\* The variables a step of the client code assigns, as one record.
Here ==
    [pc |-> pc, call |-> call, snd |-> snd, drv |-> drv, io |-> io,
     outcome |-> outcome, data |-> data,
     last_update_success |-> last_update_success,
     model |-> model, fmp_trigger_state |-> fmp_trigger_state]

Become(k) ==
    /\ pc' = k.pc
    /\ call' = k.call
    /\ snd' = k.snd
    /\ drv' = k.drv
    /\ io' = k.io
    /\ outcome' = k.outcome
    /\ data' = k.data
    /\ last_update_success' = k.last_update_success
    /\ model' = k.model
    /\ fmp_trigger_state' = k.fmp_trigger_state
    /\ hass' = hass

(***************************************************************************)
(* The client code between two awaits.  Each operator below takes the      *)
(* assigned variables as a record k and gives their values when the code   *)
(* reaches its next await or the top-level call ends.                      *)
(***************************************************************************)
\* The top-level call ends: its result is kept in outcome.
Finish(k, status, err, argument, state) ==
    [k EXCEPT !.pc = "idle",
              !.outcome = [status |-> status, call |-> k.call, err |-> err,
                           argument |-> argument, state |-> state,
                           fallbacks |-> k.drv.fallbacks],
              !.call = NoCall, !.snd = NoSnd, !.drv = NoDrv]

FinishWith(k, res) ==
    IF res.ok THEN Finish(k, "ok", NoError, res.argument, NoState)
    ELSE Finish(k, "raised", res.err, <<>>, NoState)

\* _send is entered (lines 78-82): the first attempt awaits the connection.
StartSend(k, via, command, argument, reply_command, accept_commands) ==
    [k EXCEPT !.pc = "connect",
              !.snd = [via |-> via, command |-> command, argument |-> argument,
                       reply_command |-> reply_command,
                       accept_commands |-> accept_commands,
                       attempt |-> 1, last_error |-> NoError],
              !.io = NoIO]

\* A variant that gives _send no accept_commands.
CommandExpectUnfiltered(k, command, argument, reply_command) ==
    StartSend(k, "_command_expect", command, argument, reply_command, AcceptAny)

\* _command_expect, up to its await of _send (lines 60-62).
CommandExpect(k, command, argument, reply_command) ==
    StartSend(k, "_command_expect", command, argument, reply_command,
              AcceptOnly({reply_command}))

\* A variant that reports a successful update and keeps the old data.
UpdateDataReturnStale(k, sres) ==
    IF sres.ok
    THEN Finish([k EXCEPT !.last_update_success = TRUE],
                "ok", NoError, <<>>, sres.state)
    ELSE Finish([k EXCEPT !.last_update_success = FALSE],
                "update_failed", sres.err, <<>>, NoState)

\* A variant that drops the stored data when an update fails.
UpdateDataReturnClears(k, sres) ==
    IF sres.ok
    THEN Finish([k EXCEPT !.data = DataOf(sres.state),
                          !.last_update_success = TRUE],
                "ok", NoError, <<>>, sres.state)
    ELSE Finish([k EXCEPT !.data = NoData, !.last_update_success = FALSE],
                "update_failed", sres.err, <<>>, NoState)

\* DataUpdateCoordinator.async_refresh around _async_update_data
\* (coordinator.py lines 97-110): a returned dictionary replaces data, an
\* UpdateFailed leaves data as it is.
UpdateDataReturn(k, sres) ==
    IF sres.ok
    THEN Finish([k EXCEPT !.data = DataOf(sres.state),
                          !.last_update_success = TRUE],
                "ok", NoError, <<>>, sres.state)
    ELSE Finish([k EXCEPT !.last_update_success = FALSE],
                "update_failed", sres.err, <<>>, NoState)

\* AudacMtxClient.async_get_state returns or raises to its caller: the
\* coordinator (coordinator.py line 94) or a direct caller (config_flow.py
\* line 157).
GetStateReturn(k, sres) ==
    LET k1 == [k EXCEPT !.io = NoIO]
    IN  IF k.call.op = "get_state"
        THEN IF sres.ok THEN Finish(k1, "ok", NoError, <<>>, sres.state)
             ELSE Finish(k1, "raised", sres.err, <<>>, NoState)
        ELSE UpdateDataReturn(k1, sres)

\* A variant that reads the mutes before the routing.
ListCommandSwapped(phase) ==
    CASE phase = "volume" -> [command |-> GVALL, reply_command |-> VALL]
      [] phase = "source" -> [command |-> GMALL, reply_command |-> MALL]
      [] phase = "mute" -> [command |-> GRALL, reply_command |-> RALL]
      [] phase = "firmware" -> [command |-> GSV, reply_command |-> SV]

\* The list command, reply tag and field of each phase of async_get_state.
ListCommand(phase) ==
    CASE phase = "volume" -> [command |-> GVALL, reply_command |-> VALL]
      [] phase = "source" -> [command |-> GRALL, reply_command |-> RALL]
      [] phase = "mute" -> [command |-> GMALL, reply_command |-> MALL]
      [] phase = "firmware" -> [command |-> GSV, reply_command |-> SV]

MtxStartPhase(k, phase) ==
    CommandExpect([k EXCEPT !.drv.phase = phase], ListCommand(phase).command,
                  <<"0">>, ListCommand(phase).reply_command)

\* AudacMtxClient.async_get_state is entered (lines 192-199).
MtxGetState(k, previous_zones) ==
    MtxStartPhase([k EXCEPT !.drv = [NoDrv EXCEPT !.previous_zones = previous_zones]],
                  "volume")

\* A variant in which a failed firmware command ends async_get_state.
MtxAfterCommandStrict(k, res) ==
    IF k.drv.phase = "firmware"
    THEN IF res.ok
         THEN GetStateReturn(k, BuildState(ZoneCount, k.drv.vol, k.drv.routing,
                                           k.drv.mute, Some(res.argument)))
         ELSE GetStateReturn(k, [ok |-> FALSE, state |-> NoState, err |-> res.err])
    ELSE LET r == ListWithFallback(res, k.drv.previous_zones, ZoneCount,
                                   k.drv.phase)
             k1 == [k EXCEPT !.drv.fallbacks =
                                IF r.fell_back THEN @ \cup {k.drv.phase} ELSE @]
         IN  IF ~r.ok
             THEN GetStateReturn(k, [ok |-> FALSE, state |-> NoState, err |-> r.err])
             ELSE CASE k.drv.phase = "volume" ->
                         MtxStartPhase([k1 EXCEPT !.drv.vol = r.value], "source")
                    [] k.drv.phase = "source" ->
                         MtxStartPhase([k1 EXCEPT !.drv.routing = r.value], "mute")
                    [] k.drv.phase = "mute" ->
                         MtxStartPhase([k1 EXCEPT !.drv.mute = r.value], "firmware")

\* AudacMtxClient.async_get_state resumes with the result of the command of
\* the current phase (lines 192-250).
MtxAfterCommand(k, res) ==
    IF k.drv.phase = "firmware"
    THEN LET fw == IF res.ok THEN Some(res.argument) ELSE NoneText
         IN  GetStateReturn(k, BuildState(ZoneCount, k.drv.vol, k.drv.routing,
                                          k.drv.mute, fw))
    ELSE LET r == ListWithFallback(res, k.drv.previous_zones, ZoneCount,
                                   k.drv.phase)
             k1 == [k EXCEPT !.drv.fallbacks =
                                IF r.fell_back THEN @ \cup {k.drv.phase} ELSE @]
         IN  IF ~r.ok
             THEN GetStateReturn(k, [ok |-> FALSE, state |-> NoState, err |-> r.err])
             ELSE CASE k.drv.phase = "volume" ->
                         MtxStartPhase([k1 EXCEPT !.drv.vol = r.value], "source")
                    [] k.drv.phase = "source" ->
                         MtxStartPhase([k1 EXCEPT !.drv.routing = r.value], "mute")
                    [] k.drv.phase = "mute" ->
                         MtxStartPhase([k1 EXCEPT !.drv.mute = r.value], "firmware")

\* A variant that keeps the stored song of a slot whose new song is None.
XmpUpdateDataReturnMerges(k, sres) ==
    IF sres.ok
    THEN LET new == XmpDataOf(sres.state)
             merged ==
                 IF ~k.data.present THEN new
                 ELSE [new EXCEPT !.slots =
                          [slot \in DOMAIN new.slots |->
                              IF new.slots[slot].song.some THEN new.slots[slot]
                              ELSE [new.slots[slot] EXCEPT
                                       !.song = k.data.slots[slot].song]]]
         IN  Finish([k EXCEPT !.data = merged, !.last_update_success = TRUE],
                    "ok", NoError, <<>>, sres.state)
    ELSE Finish([k EXCEPT !.last_update_success = FALSE],
                "update_failed", sres.err, <<>>, NoState)

\* A variant in which an update forgets the trigger settings.
XmpUpdateDataReturnForgetsTrigger(k, sres) ==
    IF sres.ok
    THEN Finish([k EXCEPT !.data = XmpDataOf(sres.state),
                          !.last_update_success = TRUE,
                          !.fmp_trigger_state = NoTriggerState],
                "ok", NoError, <<>>, sres.state)
    ELSE Finish([k EXCEPT !.last_update_success = FALSE,
                          !.fmp_trigger_state = NoTriggerState],
                "update_failed", sres.err, <<>>, NoState)

\* DataUpdateCoordinator.async_refresh around _async_update_data in
\* modular-player mode (coordinator.py lines 72-98).
XmpUpdateDataReturn(k, sres) ==
    IF sres.ok
    THEN Finish([k EXCEPT !.data = XmpDataOf(sres.state),
                          !.last_update_success = TRUE],
                "ok", NoError, <<>>, sres.state)
    ELSE Finish([k EXCEPT !.last_update_success = FALSE],
                "update_failed", sres.err, <<>>, NoState)

\* AudacXmpClient.async_get_state returns or raises to its caller.
XmpGetStateReturn(k, sres) ==
    LET k1 == [k EXCEPT !.io = NoIO]
    IN  IF k.call.op = "xmp_get_state"
        THEN IF sres.ok THEN Finish(k1, "ok", NoError, <<>>, sres.state)
             ELSE Finish(k1, "raised", sres.err, <<>>, NoState)
        ELSE XmpUpdateDataReturn(k1, sres)

\* AudacXmpClient.async_get_state is entered (line 340).
XmpGetState(k) ==
    CommandExpect([k EXCEPT !.drv = [NoDrv EXCEPT !.phase = "tps",
                                                  !.configured_modules = SlotModules]],
                  GTPS, <<"0">>, TPS)

\* A per-slot query is started (lines 349-355).
XmpStartQuery(k, slot, query) ==
    CommandExpect([k EXCEPT !.drv.phase = "slot", !.drv.slot = slot,
                            !.drv.query = query],
                  XmpCommand(query, slot), <<"0">>, XmpReplyTag(query, slot))

\* A variant in which a failed per-slot query ends async_get_state.
XmpAfterCommandStrict(k, res) ==
    IF ~res.ok
    THEN XmpGetStateReturn(k, [ok |-> FALSE, state |-> NoState, err |-> res.err])
    ELSE IF k.drv.phase = "tps"
    THEN LET detected == ParseTps(res.argument, SlotCount)
             first == XmpSlotState(EffectiveModule(1, k.drv.configured_modules, detected))
         IN  XmpStartQuery([k EXCEPT !.drv.detected = detected,
                                     !.drv.slots = <<first>>], 1, 1)
    ELSE LET slot == k.drv.slot
             query == k.drv.query
             k1 == [k EXCEPT !.drv.slots[slot] =
                                SetField(@, XmpQueries[query].field, res)]
         IN  IF query < Len(XmpQueries)
             THEN XmpStartQuery(k1, slot, query + 1)
             ELSE IF slot < SlotCount
             THEN XmpStartQuery(
                      [k1 EXCEPT !.drv.slots =
                          Append(@, XmpSlotState(EffectiveModule(slot + 1,
                                                                 k.drv.configured_modules,
                                                                 k.drv.detected)))],
                      slot + 1, 1)
             ELSE XmpGetStateReturn(k1, [ok |-> TRUE,
                                         state |-> [slots |-> k1.drv.slots],
                                         err |-> NoError])

\* AudacXmpClient.async_get_state resumes with the result of its current
\* command (lines 340-369).
XmpAfterCommand(k, res) ==
    IF k.drv.phase = "tps"
    THEN IF ~res.ok
         THEN XmpGetStateReturn(k, [ok |-> FALSE, state |-> NoState, err |-> res.err])
         ELSE LET detected == ParseTps(res.argument, SlotCount)
                  first == XmpSlotState(EffectiveModule(1, k.drv.configured_modules, detected))
              IN  XmpStartQuery([k EXCEPT !.drv.detected = detected,
                                          !.drv.slots = <<first>>], 1, 1)
    ELSE LET slot == k.drv.slot
             query == k.drv.query
             k1 == [k EXCEPT !.drv.slots[slot] =
                                SetField(@, XmpQueries[query].field, res)]
         IN  IF query < Len(XmpQueries)
             THEN XmpStartQuery(k1, slot, query + 1)
             ELSE IF slot < SlotCount
             THEN XmpStartQuery(
                      [k1 EXCEPT !.drv.slots =
                          Append(@, XmpSlotState(EffectiveModule(slot + 1,
                                                                 k.drv.configured_modules,
                                                                 k.drv.detected)))],
                      slot + 1, 1)
             ELSE XmpGetStateReturn(k1, [ok |-> TRUE,
                                         state |-> [slots |-> k1.drv.slots],
                                         err |-> NoError])

\* _async_update_data is entered in modular-player mode (coordinator.py
\* lines 72-74).
XmpRefresh(k) == XmpGetState([k EXCEPT !.call.op = "xmp_refresh"])

\* _async_update_data is entered (coordinator.py lines 93-96).
Refresh(k) ==
    MtxGetState([k EXCEPT !.call.op = "refresh"], GetPreviousZones(k.data))

\* AudacZoneVolumeNumber.async_set_native_value after async_set_zone_volume
\* (number.py lines 90-91): the refresh is requested only when the call
\* returned.  A direct caller of the driver gets the result as it is.
SetZoneVolumeReturn(k, res) ==
    IF res.ok /\ k.call.refresh THEN Refresh(k) ELSE FinishWith(k, res)

\* _async_update_data is entered by a requested refresh (coordinator.py
\* line 73).
UpdateData(k) == IF k.model = MODEL_XMP44 THEN XmpRefresh(k) ELSE Refresh(k)

\* The mutations of the two drivers other than set_zone_volume.
MtxMutations == {"set_zone_source", "set_zone_mute"}
XmpMutations == {"set_slot_gain", "set_bmp_pairing", "set_slot_trigger"}

\* A variant that keeps the reply as the description whatever it is.
TriggerDescriptionAsReplied(response, contact, action) ==
    LET description == Strip(response)
    IN  IF description = <<>> THEN NoneText ELSE Some(description)

\* async_trigger_fmp after async_set_slot_trigger (coordinator.py lines
\* 159-162): the description kept for the slot.
TriggerDescription(response, contact, action) ==
    LET description == Strip(response)
    IN  IF description = <<>> THEN NoneText
        ELSE IF description = MTX_OK
             THEN Some(<<"T", "r", "i", "g", "g", "e", "r", " ">>
                       \o IntToStr(contact) \o <<" ">> \o action)
             ELSE Some(description)

\* A variant that writes the action and contact it has sent back with the
\* description.
TriggerFmpReturnWritesBack(k, res) ==
    [k EXCEPT !.fmp_trigger_state[k.call.zone] =
                  [action |-> k.call.source, contact |-> k.call.value,
                   description |->
                       TriggerDescription(res.argument, k.call.value, k.call.source)]]

\* The locals slot, contact and action are in call (zone, value, source).
TriggerFmpReturn(k, res) ==
    [k EXCEPT !.fmp_trigger_state[k.call.zone].description =
                  TriggerDescription(res.argument, k.call.value, k.call.source)]

\* A variant in which a failed trigger leaves a description.
MutationReturnDescribesFailure(k, res) ==
    IF ~res.ok /\ k.call.op = "set_slot_trigger" /\ k.call.refresh
    THEN FinishWith([k EXCEPT !.fmp_trigger_state[k.call.zone].description =
                                  Some(<<"f", "a", "i", "l", "e", "d">>)], res)
    ELSE IF ~res.ok \/ ~k.call.refresh THEN FinishWith(k, res)
    ELSE IF k.call.op = "set_slot_trigger"
         THEN UpdateData(TriggerFmpReturn(k, res))
         ELSE UpdateData(k)

\* A variant in which a source that was set is written to the stored state.
MutationReturnOptimistic(k, res) ==
    LET k1 == IF res.ok /\ k.call.op = "set_zone_source" /\ k.data.present
              THEN [k EXCEPT !.data.zones[k.call.zone].source = k.call.source]
              ELSE k
    IN  IF ~res.ok \/ ~k.call.refresh THEN FinishWith(k1, res)
        ELSE IF k.call.op = "set_slot_trigger"
             THEN UpdateData(TriggerFmpReturn(k1, res))
             ELSE UpdateData(k1)

\* A variant in which the entity requests its refresh whatever the mutation did.
MutationReturnAlwaysRefreshes(k, res) ==
    IF ~k.call.refresh THEN FinishWith(k, res)
    ELSE IF k.call.op = "set_slot_trigger" /\ res.ok
         THEN UpdateData(TriggerFmpReturn(k, res))
         ELSE UpdateData(k)

\* The caller of a mutation resumes: a direct caller gets the result as it
\* is; an entity (select.py lines 100-101, switch.py lines 82-87 and 116-121,
\* number.py lines 122-123, button.py lines 50-51) requests a refresh when
\* the call returned, and the error goes through it otherwise.
MutationReturn(k, res) ==
    IF ~res.ok \/ ~k.call.refresh THEN FinishWith(k, res)
    ELSE IF k.call.op = "set_slot_trigger"
         THEN UpdateData(TriggerFmpReturn(k, res))
         ELSE UpdateData(k)

\* The caller of _command_expect resumes.
AfterCommand(k, res) ==
    CASE k.call.op = "command_expect" -> FinishWith(k, res)
      [] k.call.op = "set_zone_volume" -> SetZoneVolumeReturn(k, res)
      [] k.call.op \in MtxMutations \cup XmpMutations -> MutationReturn(k, res)
      [] k.call.op \in {"get_state", "refresh"} -> MtxAfterCommand(k, res)
      [] k.call.op \in {"xmp_get_state", "xmp_refresh"} -> XmpAfterCommand(k, res)

\* _command_expect after _send (lines 63-67).
CommandExpectReturn(k, res) ==
    IF res.ok /\ res.command # k.snd.reply_command
    THEN AfterCommand(k, Raised(Err("UnexpectedReply", 0, <<>>)))
    ELSE AfterCommand(k, res)

\* A variant in which a raw reply with another command tag is retried.
SendRawReturnRetries(k, res) ==
    IF res.ok /\ res.command # k.snd.command /\ k.snd.attempt < 3
    THEN [k EXCEPT !.pc = "sleep", !.io.sleeps = Append(@, 15 * k.snd.attempt)]
    ELSE LET checked == IF res.ok /\ res.command # k.snd.command
                        THEN Raised(Err("UnexpectedRawReply", 0, <<>>))
                        ELSE res
         IN  IF checked.ok /\ k.call.refresh THEN UpdateData(k)
             ELSE FinishWith(k, checked)

\* async_send_raw after _send (client.py lines 48-52), and handle_send_raw
\* after it (services.py lines 43-46): the service requests a refresh when
\* the call returned; a direct caller gets the result as it is.
SendRawReturn(k, res) ==
    LET checked == IF res.ok /\ res.command # k.snd.command
                   THEN Raised(Err("UnexpectedRawReply", 0, <<>>))
                   ELSE res
    IN  IF checked.ok /\ k.call.refresh THEN UpdateData(k)
        ELSE FinishWith(k, checked)

\* _send returns a frame or raises its last error.
SendReturn(k, res) ==
    CASE k.snd.via = "_command_expect" -> CommandExpectReturn(k, res)
      [] k.snd.via = "async_send_raw" -> SendRawReturn(k, res)

\* A variant in which a frame of an attempt before the last is dropped.
SendOnceReturnedRetries(k, command, argument) ==
    IF k.snd.attempt >= Attempts
    THEN SendReturn(k, Returned(command, argument))
    ELSE [k EXCEPT !.pc = "sleep",
                   !.io.sleeps = Append(@, Backoff(k.snd.attempt))]

\* _send, an attempt returned a frame (line 82).
SendOnceReturned(k, command, argument) ==
    SendReturn(k, Returned(command, argument))

\* A variant with a budget of four attempts.
SendOnceRaisedFourAttempts(k, err) ==
    LET k1 == [k EXCEPT !.snd.last_error = err]
    IN  IF k.snd.attempt >= 4
        THEN SendReturn(k1, Raised(k1.snd.last_error))
        ELSE [k1 EXCEPT !.pc = "sleep",
                        !.io.sleeps = Append(@, Backoff(k.snd.attempt))]

\* _send, an attempt raised (lines 83-91): the error is remembered; after the
\* last attempt it is raised, otherwise the backoff sleep is awaited.
SendOnceRaised(k, err) ==
    LET k1 == [k EXCEPT !.snd.last_error = err]
    IN  IF k.snd.attempt >= Attempts
        THEN SendReturn(k1, Raised(k1.snd.last_error))
        ELSE [k1 EXCEPT !.pc = "sleep",
                        !.io.sleeps = Append(@, Backoff(k.snd.attempt))]

(***************************************************************************)
(* The device and the network: what the client's awaits can meet.          *)
(***************************************************************************)
\* Two settings of the device's zones that differ in every field.
SceneA ==
    [zone \in Zones |-> [volume |-> 10 * zone, source |-> IntToStr(zone),
                         mute |-> (zone % 2 = 0)]]
SceneB ==
    [zone \in Zones |-> [volume |-> 10 * zone + 5, source |-> IntToStr(zone + 1),
                         mute |-> (zone % 2 = 1)]]
Scenes == {SceneA, SceneB}
DeviceFirmware == <<"1", ".", "0">>

\* f"{zone:02d}".
TwoDigits(n) == IF n < 10 THEN <<"0">> \o IntToStr(n) ELSE IntToStr(n)

\* The command and argument of a payload the device received.
DeviceRequest(payload) ==
    LET parts == Split(Strip(payload), Bar)
    IN  [command |-> parts[4], argument |-> parts[5]]

\* The device carries out a received SV{zone}, SR{zone} or SM{zone} command.
DeviceApply(d, payload) ==
    LET req == DeviceRequest(payload)
    IN  IF \E zone \in Zones : req.command = SV \o IntToStr(zone)
        THEN LET zone == CHOOSE z \in Zones : req.command = SV \o IntToStr(z)
             IN  IF ParseInt(req.argument).ok
                 THEN [d EXCEPT ![zone].volume = ParseInt(req.argument).value]
                 ELSE d
        ELSE IF \E zone \in Zones : req.command = SR \o IntToStr(zone)
        THEN LET zone == CHOOSE z \in Zones : req.command = SR \o IntToStr(z)
             IN  [d EXCEPT ![zone].source = req.argument]
        ELSE IF \E zone \in Zones : req.command = SM \o TwoDigits(zone)
        THEN LET zone == CHOOSE z \in Zones : req.command = SM \o TwoDigits(z)
             IN  [d EXCEPT ![zone].mute = (req.argument = <<"1">>)]
        ELSE d

\* The modular player: the type codes of its slots and the values of its
\* per-slot queries.  The gain of the last slot is no number.
XmpDeviceTypes == Join(Caret, [slot \in Slots |-> IF slot = 1 THEN <<"1">> ELSE <<"6">>])
XmpDeviceValue(query, slot) ==
    IF query = 1
    THEN (IF slot = SlotCount THEN <<"-">> ELSE IntToStr(slot))
    ELSE XmpQueries[query].tag \o <<" ">> \o IntToStr(slot)

\* The modular player's answer to a trigger: a text for contact 15, a blank
\* for contact 7, the bare acknowledgement for any other.
XmpTriggerReply(argument) ==
    CASE Split(argument, Caret)[1] = <<"1", "5">> -> <<" ", "b", "u", "s", "y">>
      [] Split(argument, Caret)[1] = <<"7">> -> <<" ">>
      [] OTHER -> MTX_OK

IsXmpQuery(command) ==
    \E query \in 1..Len(XmpQueries), slot \in Slots : command = XmpCommand(query, slot)

XmpDeviceReply(command) ==
    LET at == CHOOSE qs \in (1..Len(XmpQueries)) \X Slots :
                  command = XmpCommand(qs[1], qs[2])
    IN  [command |-> XmpReplyTag(at[1], at[2]),
         argument |-> XmpDeviceValue(at[1], at[2])]

\* The device's answer to a request: the lists of GVALL, GRALL and GMALL, the
\* firmware of GSV, and the echo of any other command with "+".
DeviceReply(d, payload) ==
    LET req == DeviceRequest(payload)
    IN  CASE req.command = GVALL ->
               [command |-> VALL,
                argument |-> Join(Caret, [z \in Zones |-> IntToStr(d[z].volume)])]
          [] req.command = GRALL ->
               [command |-> RALL,
                argument |-> Join(Caret, [z \in Zones |-> d[z].source])]
          [] req.command = GMALL ->
               [command |-> MALL,
                argument |-> Join(Caret, [z \in Zones |->
                                IF d[z].mute THEN <<"1">> ELSE <<"0">>])]
          [] req.command = GSV ->
               [command |-> SV, argument |-> DeviceFirmware]
          [] req.command = GTPS ->
               [command |-> TPS, argument |-> XmpDeviceTypes]
          [] IsXmpQuery(req.command) -> XmpDeviceReply(req.command)
          [] \E slot \in Slots : req.command = SSTR \o IntToStr(slot) ->
               [command |-> req.command, argument |-> XmpTriggerReply(req.argument)]
          [] OTHER -> [command |-> req.command, argument |-> MTX_OK]

\* A frame as the device sends it.
FrameLine(command, argument) ==
    <<Hash, Bar>> \o self_source_id \o <<Bar>> \o self_device_address
    \o <<Bar>> \o command \o <<Bar>> \o argument \o <<Bar, "U", Bar>> \o CRLF

\* A list without its last item.
DropLast(list) ==
    LET items == Split(list, Caret)
    IN  Join(Caret, SubSeq(items, 1, Len(items) - 1))

\* The lines a device can send after a request:
\*   reply      the answer to the request
\*   push       an unsolicited update frame
\*   fragment   a line of fewer than 6 fields
\*   badstart   the answer with a wrong start marker
\*   blank      an empty line
\*   too_few    the answer with its last list item missing
\*   junk       the answer with a first list item that is no number
\*   empty      the answer with a list of blank items only
\*   foreign    the answer with other destination and source fields
DeviceLine(kind, d, payload) ==
    LET reply == DeviceReply(d, payload)
    IN  CASE kind = "reply" -> FrameLine(reply.command, reply.argument)
          [] kind = "push" -> FrameLine(<<"M", "U">>, <<"1">>)
          [] kind = "fragment" -> <<Hash, Bar>> \o reply.command \o CRLF
          [] kind = "badstart" ->
               <<"!">> \o Tail(FrameLine(reply.command, reply.argument))
          [] kind = "blank" -> CRLF
          [] kind = "too_few" -> FrameLine(reply.command, DropLast(reply.argument))
          [] kind = "junk" -> FrameLine(reply.command, <<"x">> \o reply.argument)
          [] kind = "empty" -> FrameLine(reply.command, <<Caret>>)
          [] kind = "foreign" ->
               <<Hash, Bar, "z", "z", Bar, "Q", "9", Bar>> \o reply.command
               \o <<Bar>> \o reply.argument \o <<Bar, "U", Bar>> \o CRLF

NoisyKinds == {"reply", "push", "fragment", "badstart", "blank"}
GarbledKinds == {"reply", "too_few"}

(***************************************************************************)
(* Initial state.                                                          *)
(***************************************************************************)
\* The coordinator of an entry for the given model, before its first refresh
\* (coordinator.py lines 56-69).
InitModel(entry_model) ==
    /\ pc = "idle"
    /\ call = NoCall
    /\ snd = NoSnd
    /\ xch = NoXch
    /\ drv = NoDrv
    /\ io = NoIO
    /\ outcome = NoOutcome
    /\ data = NoData
    /\ last_update_success = TRUE
    /\ dev = SceneA
    /\ now = 0
    /\ leaked = 0
    /\ down = {}
    /\ model = entry_model
    /\ fmp_trigger_state = NoTriggerState
    /\ hass = NoHass

\* An entry for a matrix mixer, and one for a modular player.
Init == InitModel(MODEL_MTX48)
InitXmp == InitModel(MODEL_XMP44)

(***************************************************************************)
(* Top-level calls.                                                        *)
(***************************************************************************)
Fresh == [Here EXCEPT !.outcome = NoOutcome, !.io = NoIO]

\* A driver call _command_expect(command, argument, reply_command).
CallCommandExpect(command, argument, reply_command) ==
    /\ pc = "idle"
    /\ Become(CommandExpect([Fresh EXCEPT !.call = [NoCall EXCEPT !.op = "command_expect"]],
                            command, argument, reply_command))
    /\ UNCHANGED <<xch, dev, now, leaked, down>>

\* A variant that checks the upper limit of the volume only.
SetZoneVolumeNoLowerLimit(k, zone, volume_db) ==
    IF volume_db > 70
    THEN FinishWith(k, Raised(Err("VolumeOutOfRange", 0, <<>>)))
    ELSE LET command == SV \o IntToStr(zone)
         IN  CommandExpect(k, command, IntToStr(volume_db), command)

\* A variant that writes the zone with two digits, as the mute command does.
SetZoneVolumePadded(k, zone, volume_db) ==
    IF volume_db < 0 \/ volume_db > 70
    THEN FinishWith(k, Raised(Err("VolumeOutOfRange", 0, <<>>)))
    ELSE LET command == SV \o (IF zone < 10 THEN <<"0">> ELSE <<>>) \o IntToStr(zone)
         IN  CommandExpect(k, command, IntToStr(volume_db), command)

\* AudacMtxClient.async_set_zone_volume(zone, volume_db) (lines 283-287),
\* called by the number entity (refresh) or directly.
SetZoneVolume(k, zone, volume_db) ==
    IF volume_db < 0 \/ volume_db > 70
    THEN FinishWith(k, Raised(Err("VolumeOutOfRange", 0, <<>>)))
    ELSE LET command == SV \o IntToStr(zone)
         IN  CommandExpect(k, command, IntToStr(volume_db), command)

CallSetZoneVolume(zone, volume_db, refresh) ==
    /\ pc = "idle"
    /\ Become(SetZoneVolume([Fresh EXCEPT !.call = [NoCall EXCEPT
                                                       !.op = "set_zone_volume",
                                                       !.zone = zone,
                                                       !.value = volume_db,
                                                       !.refresh = refresh]],
                            zone, volume_db))
    /\ UNCHANGED <<xch, dev, now, leaked, down>>

\* async_send_raw, up to its await of _send (client.py line 47): no
\* accept_commands are passed.
SendRaw(k, command, argument) ==
    StartSend(k, "async_send_raw", command, argument, command, AcceptAny)

\* The send_raw_command service (refresh) or a direct caller sends a command.
CallSendRaw(command, argument, refresh) ==
    /\ pc = "idle"
    /\ Become(SendRaw([Fresh EXCEPT !.call = [NoCall EXCEPT !.op = "send_raw",
                                                            !.refresh = refresh]],
                      command, argument))
    /\ UNCHANGED <<xch, dev, now, leaked, down>>

\* "1" if flag else "0".
FlagArgument(flag) == IF flag THEN <<"1">> ELSE <<"0">>

\* AudacMtxClient.async_set_zone_source(zone, source) (lines 289-291).
SetZoneSource(k, zone, source) ==
    LET command == SR \o IntToStr(zone)
    IN  CommandExpect(k, command, source, command)

\* AudacMtxClient.async_set_zone_mute(zone, muted) (lines 293-295).
SetZoneMute(k, zone, muted) ==
    LET command == SM \o TwoDigits(zone)
    IN  CommandExpect(k, command, FlagArgument(muted), command)

\* AudacXmpClient.async_set_slot_gain(slot, value) (lines 371-372).
SetSlotGain(k, slot, value) ==
    CommandExpect(k, SOG \o IntToStr(slot), IntToStr(value), SOG \o IntToStr(slot))

\* AudacXmpClient.async_set_bmp_pairing(slot, enabled) (lines 374-375).
SetBmpPairing(k, slot, enabled) ==
    CommandExpect(k, SPAIR \o IntToStr(slot), FlagArgument(enabled),
                  SPAIR \o IntToStr(slot))

\* A variant that sends "1" for stop and "0" for start.
SetSlotTriggerInverted(k, slot, trigger_number, start) ==
    IF trigger_number < 1 \/ trigger_number > 15
    THEN FinishWith(k, Raised(Err("TriggerOutOfRange", 0, <<>>)))
    ELSE CommandExpect(k, SSTR \o IntToStr(slot),
                       IntToStr(trigger_number) \o Caret \o FlagArgument(~start),
                       SSTR \o IntToStr(slot))

\* AudacXmpClient.async_set_slot_trigger(slot, trigger_number, start)
\* (lines 377-381).
SetSlotTrigger(k, slot, trigger_number, start) ==
    IF trigger_number < 1 \/ trigger_number > 15
    THEN FinishWith(k, Raised(Err("TriggerOutOfRange", 0, <<>>)))
    ELSE CommandExpect(k, SSTR \o IntToStr(slot),
                       IntToStr(trigger_number) \o Caret \o FlagArgument(start),
                       SSTR \o IntToStr(slot))

\* The select entity of a zone (refresh) or a direct caller sets the source.
CallSetZoneSource(zone, source, refresh) ==
    /\ pc = "idle"
    /\ Become(SetZoneSource([Fresh EXCEPT !.call = [NoCall EXCEPT
                                                       !.op = "set_zone_source",
                                                       !.zone = zone,
                                                       !.source = source,
                                                       !.refresh = refresh]],
                            zone, source))
    /\ UNCHANGED <<xch, dev, now, leaked, down>>

\* The mute switch of a zone (refresh) or a direct caller sets the mute.
CallSetZoneMute(zone, muted, refresh) ==
    /\ pc = "idle"
    /\ Become(SetZoneMute([Fresh EXCEPT !.call = [NoCall EXCEPT
                                                     !.op = "set_zone_mute",
                                                     !.zone = zone,
                                                     !.flag = muted,
                                                     !.refresh = refresh]],
                          zone, muted))
    /\ UNCHANGED <<xch, dev, now, leaked, down>>

\* The gain number of a slot (refresh) or a direct caller sets the gain.
CallSetSlotGain(slot, value, refresh) ==
    /\ pc = "idle"
    /\ Become(SetSlotGain([Fresh EXCEPT !.call = [NoCall EXCEPT
                                                     !.op = "set_slot_gain",
                                                     !.zone = slot,
                                                     !.value = value,
                                                     !.refresh = refresh]],
                          slot, value))
    /\ UNCHANGED <<xch, dev, now, leaked, down>>

\* The pairing switch of a slot (refresh) or a direct caller sets the pairing.
CallSetBmpPairing(slot, enabled, refresh) ==
    /\ pc = "idle"
    /\ Become(SetBmpPairing([Fresh EXCEPT !.call = [NoCall EXCEPT
                                                       !.op = "set_bmp_pairing",
                                                       !.zone = slot,
                                                       !.flag = enabled,
                                                       !.refresh = refresh]],
                            slot, enabled))
    /\ UNCHANGED <<xch, dev, now, leaked, down>>

\* AudacXmpClient.async_set_slot_trigger called directly.
CallSetSlotTrigger(slot, trigger_number, start) ==
    /\ pc = "idle"
    /\ Become(SetSlotTrigger([Fresh EXCEPT !.call = [NoCall EXCEPT
                                                        !.op = "set_slot_trigger",
                                                        !.zone = slot,
                                                        !.value = trigger_number,
                                                        !.flag = start]],
                             slot, trigger_number, start))
    /\ UNCHANGED <<xch, dev, now, leaked, down>>

\* max(FMP_TRIGGER_MIN, min(FMP_TRIGGER_MAX, value))
ClampContact(value) ==
    LET capped == IF value < FMP_TRIGGER_MAX THEN value ELSE FMP_TRIGGER_MAX
    IN  IF capped > FMP_TRIGGER_MIN THEN capped ELSE FMP_TRIGGER_MIN

\* get_fmp_trigger_contact (coordinator.py lines 132-138): the stored
\* contact, kept within its limits.
GetFmpTriggerContact(slot) == ClampContact(fmp_trigger_state[slot].contact)

\* get_fmp_trigger_action (coordinator.py lines 120-123).
GetFmpTriggerAction(slot) == fmp_trigger_state[slot].action

\* FMP_TRIGGER_ACTION_OPTIONS (const.py lines 108-111).
FMP_TRIGGER_ACTION_OPTIONS == {FMP_TRIGGER_ACTION_START, FMP_TRIGGER_ACTION_STOP}

\* A setter of the trigger settings returns or raises.  The setters are
\* synchronous: they also run while a call waits for the network, and only
\* a setter called while no call runs leaves its result in outcome.
SetterReturn(k, op, slot, value, source, err) ==
    IF k.pc # "idle" THEN k
    ELSE [k EXCEPT !.outcome =
             [NoOutcome EXCEPT !.status = IF err = NoError THEN "ok" ELSE "raised",
                               !.err = err,
                               !.call = [NoCall EXCEPT !.op = op, !.zone = slot,
                                                       !.value = value,
                                                       !.source = source]]]

\* A variant that stores the action as it is given.
SetFmpTriggerActionUnchecked(slot, action) ==
    /\ Become(SetterReturn([Here EXCEPT !.fmp_trigger_state[slot].action = action],
                           "set_fmp_trigger_action", slot, 0, action, NoError))
    /\ UNCHANGED <<xch, dev, now, leaked, down>>

\* set_fmp_trigger_action(slot, action) (coordinator.py lines 125-130).
SetFmpTriggerAction(slot, action) ==
    /\ LET normalized == Lower(Strip(action))
       IN  IF normalized \notin FMP_TRIGGER_ACTION_OPTIONS
           THEN Become(SetterReturn(Here, "set_fmp_trigger_action", slot, 0, action,
                                    Err("UnsupportedTriggerAction", 0, action)))
           ELSE Become(SetterReturn([Here EXCEPT
                                        !.fmp_trigger_state[slot].action = normalized],
                                    "set_fmp_trigger_action", slot, 0, action, NoError))
    /\ UNCHANGED <<xch, dev, now, leaked, down>>

\* set_fmp_trigger_contact(slot, contact) (coordinator.py lines 140-143).
SetFmpTriggerContact(slot, contact) ==
    /\ Become(SetterReturn([Here EXCEPT !.fmp_trigger_state[slot].contact =
                                            ClampContact(contact)],
                           "set_fmp_trigger_contact", slot, contact, <<>>, NoError))
    /\ UNCHANGED <<xch, dev, now, leaked, down>>

\* The trigger button of a slot is pressed (button.py lines 49-51):
\* async_trigger_fmp sends the stored action and contact (coordinator.py
\* lines 154-157).
CallTriggerFmp(slot) ==
    /\ pc = "idle"
    /\ LET action == GetFmpTriggerAction(slot)
           contact == GetFmpTriggerContact(slot)
           start == action = FMP_TRIGGER_ACTION_START
       IN  Become(SetSlotTrigger([Fresh EXCEPT !.call = [NoCall EXCEPT
                                                           !.op = "set_slot_trigger",
                                                           !.zone = slot,
                                                           !.value = contact,
                                                           !.flag = start,
                                                           !.source = action,
                                                           !.refresh = TRUE]],
                                 slot, contact, start))
    /\ UNCHANGED <<xch, dev, now, leaked, down>>

\* AudacMtxClient.async_get_state(zone_count, previous_zones), called directly.
CallGetState(previous_zones) ==
    /\ pc = "idle"
    /\ Become(MtxGetState([Fresh EXCEPT !.call = [NoCall EXCEPT !.op = "get_state"]],
                          previous_zones))
    /\ UNCHANGED <<xch, dev, now, leaked, down>>

\* A scheduled refresh of the coordinator.
Tick ==
    /\ pc = "idle"
    /\ Become(Refresh([Fresh EXCEPT !.call = NoCall]))
    /\ UNCHANGED <<xch, dev, now, leaked, down>>

\* AudacXmpClient.async_get_state(slot_count, configured_modules), called
\* directly.
CallXmpGetState ==
    /\ pc = "idle"
    /\ Become(XmpGetState([Fresh EXCEPT !.call = [NoCall EXCEPT !.op = "xmp_get_state"]]))
    /\ UNCHANGED <<xch, dev, now, leaked, down>>

\* A scheduled refresh of the coordinator in modular-player mode.
TickXmp ==
    /\ pc = "idle"
    /\ Become(XmpRefresh([Fresh EXCEPT !.call = NoCall]))
    /\ UNCHANGED <<xch, dev, now, leaked, down>>

\* The network starts to refuse the connections of other commands.
DownInputs ==
    {{}, {GTPS}, {XmpCommand(1, 1)}, {XmpCommand(3, 1), XmpCommand(7, SlotCount)},
     {XmpCommand(query, SlotCount) : query \in 1..Len(XmpQueries)}}

Outage ==
    /\ pc = "idle"
    /\ down' \in DownInputs \ {down}
    /\ UNCHANGED <<pc, call, snd, xch, drv, io, outcome, data,
                   last_update_success, dev, now, leaked, model,
                   fmp_trigger_state, hass>>

\* Somebody changes the device's zones (front panel, another controller).
ExternalChange ==
    /\ pc = "idle"
    /\ dev' \in Scenes \ {dev}
    /\ UNCHANGED <<pc, call, snd, xch, drv, io, outcome, data,
                   last_update_success, now, leaked, down, model,
                   fmp_trigger_state, hass>>

\* The runtime closes the socket of a connection nobody refers to any more.
Finalize ==
    /\ leaked > 0
    /\ leaked' = leaked - 1
    /\ UNCHANGED <<pc, call, snd, xch, drv, io, outcome, data,
                   last_update_success, dev, now, down, model,
                   fmp_trigger_state, hass>>

(***************************************************************************)
(* _send_once, one action per await (lines 104-163).                       *)
(***************************************************************************)
\* The exchange raises from inside its try block (lines 149-153).  A writer
\* that is still open is not closed: the connection stays open, unreferenced.
ExchangeRaises(k) ==
    /\ xch.writer_open => leaked < MaxLeaked
    /\ leaked' = IF xch.writer_open THEN leaked + 1 ELSE leaked
    /\ xch' = NoXch
    /\ now' = 0
    /\ Become(SendOnceRaised(k, Err("TcpFailed", snd.attempt, <<>>)))

\* writer.close() (lines 136 and 147): wait_closed is awaited next.
CloseWriter(x) == [x EXCEPT !.writer_open = FALSE]

\* await asyncio.wait_for(asyncio.open_connection(...)) ends (lines 107-111);
\* on success the payload is written and drain is awaited.
Connect(success) ==
    /\ pc = "connect"
    /\ LET k == [Here EXCEPT !.io.opens = @ + 1]
       IN  IF success
           THEN /\ xch' = [NoXch EXCEPT !.writer_open = TRUE]
                /\ Become([k EXCEPT !.pc = "drain",
                                    !.io.written =
                                        Append(@, Payload(snd.command, snd.argument))])
                /\ UNCHANGED <<now, leaked>>
           ELSE ExchangeRaises(k)
    /\ UNCHANGED <<dev, down>>

\* The connection of a command the network refuses, and of any other.
ConnectDown == snd.command \in down /\ Connect(FALSE)
ConnectUp == snd.command \notin down /\ Connect(TRUE)

\* A variant in which the read loop never ends by itself.
LoopContinuesAlways(t, deadline) == TRUE

\* while time.monotonic() < deadline (line 115).
LoopContinues(t, deadline) == t < deadline

\* await writer.drain() ends (lines 112-115).  On success the device has the
\* payload, the deadline is set and the read loop is entered.
Drain(success, delivered) ==
    /\ pc = "drain"
    /\ LET payload == io.written[Len(io.written)]
       IN  IF success
           THEN /\ delivered
                /\ dev' = DeviceApply(dev, payload)
                /\ LET deadline == now + TimeoutTicks
                   IN  IF LoopContinues(now, deadline)
                       THEN /\ xch' = [xch EXCEPT !.deadline = deadline, !.raw = <<>>]
                            /\ Become([Here EXCEPT !.pc = "read"])
                       ELSE /\ xch' = CloseWriter([xch EXCEPT !.deadline = deadline,
                                                              !.raw = <<>>])
                            /\ Become([Here EXCEPT !.pc = "wait_closed"])
                /\ UNCHANGED <<now, leaked>>
           ELSE /\ dev' = IF delivered THEN DeviceApply(dev, payload) ELSE dev
                /\ ExchangeRaises(Here)
    /\ UNCHANGED down

\* timeout_left = max(0.1, deadline - time.monotonic()) (line 116); 0.1 s is
\* less than one tick.
TimeoutLeft == xch.deadline - now

\* await asyncio.wait_for(reader.readline(), ...) returns a line after dt
\* ticks (lines 117-145).
ReadLine(kind, dt) ==
    /\ pc = "read"
    /\ Len(xch.received) < MaxLines
    /\ dt \in 0..TimeoutLeft
    /\ LET raw == DeviceLine(kind, dev, io.written[Len(io.written)])
           frame == ParseLine(raw, snd.accept_commands)
           x == [xch EXCEPT !.raw = raw, !.received = Append(@, raw)]
       IN  /\ now' = now + dt
           /\ IF frame.skip
              THEN IF LoopContinues(now + dt, xch.deadline)
                   THEN /\ xch' = x
                        /\ Become(Here)
                   ELSE /\ xch' = CloseWriter(x)
                        /\ Become([Here EXCEPT !.pc = "wait_closed"])
              ELSE /\ xch' = CloseWriter([x EXCEPT !.found = TRUE,
                                                    !.command = frame.command,
                                                    !.argument = frame.argument])
                   /\ Become([Here EXCEPT !.pc = "wait_closed"])
    /\ UNCHANGED <<dev, leaked, down>>

\* The read returns b"" after dt ticks: the stream has ended (lines 118-119).
ReadEof(dt) ==
    /\ pc = "read"
    /\ dt \in 0..TimeoutLeft
    /\ now' = now + dt
    /\ xch' = CloseWriter([xch EXCEPT !.raw = <<>>])
    /\ Become([Here EXCEPT !.pc = "wait_closed"])
    /\ UNCHANGED <<dev, leaked, down>>

\* The read times out: asyncio.TimeoutError inside the try block.
ReadTimeout ==
    /\ pc = "read"
    /\ ExchangeRaises(Here)
    /\ UNCHANGED <<dev, down>>

\* await writer.wait_closed() ends (lines 137-163): the frame found is
\* returned, or the error of an exchange without one is raised.
WaitClosed(success) ==
    /\ pc = "wait_closed"
    /\ IF success
       THEN /\ xch' = NoXch
            /\ now' = 0
            /\ leaked' = leaked
            /\ Become(IF xch.found
                      THEN SendOnceReturned(Here, xch.command, xch.argument)
                      ELSE SendOnceRaised(Here, NoFrameError(xch.raw,
                                                             snd.accept_commands,
                                                             snd.attempt)))
       ELSE ExchangeRaises(Here)
    /\ UNCHANGED <<dev, down>>

\* await asyncio.sleep(0.15 * attempt) ends: the next attempt (line 80).
SleepDone ==
    /\ pc = "sleep"
    /\ Become([Here EXCEPT !.pc = "connect", !.snd.attempt = @ + 1])
    /\ UNCHANGED <<xch, dev, now, leaked, down>>

\* The failures the network can cause, and the steps of a sound network.
ExchangeFails ==
    \/ Connect(FALSE)
    \/ \E delivered \in BOOLEAN : Drain(FALSE, delivered)
    \/ ReadTimeout
    \/ WaitClosed(FALSE)

ExchangeEnds ==
    \/ \E dt \in 0..TimeoutTicks : ReadEof(dt)
    \/ Finalize

ExchangeRuns(kinds, dts) ==
    \/ Connect(TRUE)
    \/ Drain(TRUE, TRUE)
    \/ \E kind \in kinds, dt \in dts : ReadLine(kind, dt)
    \/ WaitClosed(TRUE)
    \/ SleepDone

(***************************************************************************)
(* Specifications.                                                         *)
(***************************************************************************)
\* The inputs of the driver calls.
CommandInputs == {<<GVALL, <<"0">>, VALL>>}
VolumeInputs == {0 - 1, 0, 70, 71}
EntityVolumeInputs == {30, 70}
\* Histories a direct caller passes: none, and one of the first zone only.
HistoryInputs == {<<>>, <<[volume |-> 7, source |-> <<"3">>, mute |-> FALSE]>>}

\* Single dispatcher calls against a device that also sends unsolicited and
\* malformed lines, over a network that fails in every way.
Next ==
    \/ \E c \in CommandInputs : CallCommandExpect(c[1], c[2], c[3])
    \/ \E zone \in {1, ZoneCount}, v \in VolumeInputs :
           CallSetZoneVolume(zone, v, FALSE)
    \/ ExchangeRuns(NoisyKinds, 0..TimeoutTicks)
    \/ ExchangeFails
    \/ ExchangeEnds

Spec == Init /\ [][Next]_vars

\* The coordinator and the matrix-mixer driver against a device whose
\* answers can lack items, over a network that refuses connections.
NextMtx ==
    \/ Tick
    \/ \E previous_zones \in HistoryInputs : CallGetState(previous_zones)
    \/ ExternalChange
    \/ ExchangeRuns(GarbledKinds, {0})
    \/ Connect(FALSE)

SpecMtx == Init /\ [][NextMtx]_vars

\* The volume entity: the mutation and the refresh it requests, over a
\* network that refuses connections.
NextEntity ==
    \/ \E v \in EntityVolumeInputs : CallSetZoneVolume(1, v, TRUE)
    \/ ExchangeRuns({"reply"}, {0})
    \/ Connect(FALSE)

SpecEntity == Init /\ [][NextEntity]_vars

\* The coordinator and the modular-player driver over a network that
\* refuses the connections of the commands in down.
NextXmp ==
    \/ TickXmp
    \/ CallXmpGetState
    \/ Outage
    \/ ConnectUp
    \/ ConnectDown
    \/ Drain(TRUE, TRUE)
    \/ ReadLine("reply", 0)
    \/ WaitClosed(TRUE)
    \/ SleepDone

SpecXmp == InitXmp /\ [][NextXmp]_vars

\* A device that reports volumes outside 0..70.
SceneOutOfRange ==
    [zone \in Zones |-> [volume |-> IF zone = 1 THEN 99 ELSE 0 - 5,
                         source |-> IntToStr(zone), mute |-> FALSE]]
RangeScenes == {SceneA, SceneB, SceneOutOfRange}

DeviceTurns ==
    /\ pc = "idle"
    /\ dev' \in RangeScenes \ {dev}
    /\ UNCHANGED <<pc, call, snd, xch, drv, io, outcome, data,
                   last_update_success, now, leaked, down, model,
                   fmp_trigger_state, hass>>

\* The coordinator's polls of such a device over a network on which every
\* exchange succeeds.
NextRange ==
    \/ Tick
    \/ DeviceTurns
    \/ Connect(TRUE)
    \/ Drain(TRUE, TRUE)
    \/ ReadLine("reply", 0)
    \/ WaitClosed(TRUE)

SpecRange == Init /\ [][NextRange]_vars

\* The coordinator's polls of a device whose list answers can lack an item
\* and which can push a frame until the deadline, over a network that
\* refuses connections and stalls.
HistoryKinds == {"reply", "too_few"}

NextHistory ==
    \/ Tick
    \/ ExternalChange
    \/ Connect(TRUE)
    \/ Connect(FALSE)
    \/ Drain(TRUE, TRUE)
    \/ \E kind \in HistoryKinds : ReadLine(kind, 0)
    \/ ReadLine("push", TimeoutTicks)
    \/ ReadTimeout
    \/ Finalize
    \/ WaitClosed(TRUE)
    \/ SleepDone

SpecHistory == Init /\ [][NextHistory]_vars

\* The two drivers called directly, with any history, against devices
\* that do not change, over a network on which every exchange succeeds.
IdemHistoryInputs == HistoryInputs \cup {SceneB}

NextIdem ==
    \/ \E previous_zones \in IdemHistoryInputs : CallGetState(previous_zones)
    \/ CallXmpGetState
    \/ Connect(TRUE)
    \/ Drain(TRUE, TRUE)
    \/ ReadLine("reply", 0)
    \/ WaitClosed(TRUE)

SpecIdem == Init /\ [][NextIdem]_vars

\* The trigger settings of slot 1, its button and the poll of the modular
\* player, over a network that refuses the connections of the commands in
\* down.
ActionInputs ==
    {FMP_TRIGGER_ACTION_START, FMP_TRIGGER_ACTION_STOP, <<" ", "S", "t", "o", "p">>,
     <<"p", "a", "u", "s", "e">>}
ContactInputs == {0, 7, 15, 16}
TriggerDownInputs == {{}, {SSTR \o <<"1">>}, {GTPS}}

TriggerOutage ==
    /\ pc = "idle"
    /\ down' \in TriggerDownInputs \ {down}
    /\ UNCHANGED <<pc, call, snd, xch, drv, io, outcome, data,
                   last_update_success, dev, now, leaked, model,
                   fmp_trigger_state, hass>>

NextTrigger ==
    \/ \E action \in ActionInputs : SetFmpTriggerAction(1, action)
    \/ \E contact \in ContactInputs : SetFmpTriggerContact(1, contact)
    \/ CallTriggerFmp(1)
    \/ TickXmp
    \/ TriggerOutage
    \/ ConnectUp
    \/ ConnectDown
    \/ Drain(TRUE, TRUE)
    \/ ReadLine("reply", 0)
    \/ WaitClosed(TRUE)
    \/ SleepDone

SpecTrigger == InitXmp /\ [][NextTrigger]_vars

\* A trigger of the button is in flight.
TriggerInFlight == call.op = "set_slot_trigger" /\ call.refresh /\ pc # "idle"

\* The trigger button over a network on which every payload written reaches
\* the device and the exchange of a trigger can fail afterwards: the stream
\* ends, the read times out, or only pushes arrive until the deadline.
NextRepeat ==
    \/ CallTriggerFmp(1)
    \/ SetFmpTriggerAction(1, FMP_TRIGGER_ACTION_STOP)
    \/ Connect(TRUE)
    \/ TriggerInFlight /\ Connect(FALSE)
    \/ Drain(TRUE, TRUE)
    \/ ReadLine("reply", 0)
    \/ TriggerInFlight /\ ReadLine("push", TimeoutTicks)
    \/ TriggerInFlight /\ ReadEof(0)
    \/ TriggerInFlight /\ ReadTimeout
    \/ Finalize
    \/ WaitClosed(TRUE)
    \/ SleepDone

SpecRepeat == InitXmp /\ [][NextRepeat]_vars

\* async_get_state from its TPS reply to the modules of the slots (lines
\* 341-346), for any configured modules and any reply: the reply is in
\* xch.argument, the configured modules of some of the slots in drv.
ModuleInputs ==
    {XMP_MODULE_AUTO, <<" ", "A", "u", "t", "o">>, XMP_MODULE_RMP40,
     <<"R", "M", "P", "4", "0">>, XMP_MODULE_BMP42, XMP_MODULE_NONE}
TpsInputs ==
    {<<"1", "^", "6">>, <<"6">>, <<>>, <<"x", "^", "8">>, <<"^", "4", "^", "1">>,
     <<"2", "^", "2", "5", "5", "^", "1", "^", "4">>}

InitModules ==
    /\ pc = "modules"
    /\ call = [NoCall EXCEPT !.op = "xmp_get_state"]
    /\ \E configured \in UNION {[D -> ModuleInputs] : D \in SUBSET Slots} :
          drv = [NoDrv EXCEPT !.phase = "tps", !.configured_modules = configured]
    /\ \E raw \in TpsInputs : xch = [NoXch EXCEPT !.found = TRUE, !.command = TPS,
                                                  !.argument = raw]
    /\ snd = NoSnd
    /\ io = NoIO
    /\ outcome = NoOutcome
    /\ data = NoData
    /\ last_update_success = TRUE
    /\ dev = SceneA
    /\ now = 0
    /\ leaked = 0
    /\ down = {}
    /\ model = MODEL_XMP44
    /\ fmp_trigger_state = NoTriggerState
    /\ hass = NoHass

ResolveModules ==
    /\ pc = "modules"
    /\ LET detected == ParseTps(xch.argument, SlotCount)
       IN  Become([Here EXCEPT
                      !.pc = "resolved",
                      !.drv.detected = detected,
                      !.drv.slots =
                          [slot \in Slots |->
                              XmpSlotState(EffectiveModule(slot, drv.configured_modules,
                                                           detected))]])
    /\ UNCHANGED <<xch, dev, now, leaked, down>>

SpecModules == InitModules /\ [][ResolveModules]_vars

\* The texts of at most n characters of an alphabet.
Texts(alphabet, n) == UNION {[1..m -> alphabet] : m \in 0..n}

\* The frame codec of _send_once: a command and an argument, as the raw
\* passthrough accepts them (any text), are encoded (lines 104-111) and the
\* bytes decoded as a received line is (lines 121-145).
MaxTextLen == 2
CodecAlphabet == {"S", " ", Bar, NonAscii}

InitCodec ==
    /\ pc = "encode"
    /\ call = [NoCall EXCEPT !.op = "send_raw"]
    /\ \E command \in Texts(CodecAlphabet, MaxTextLen),
          argument \in Texts(CodecAlphabet, MaxTextLen) :
          snd = [NoSnd EXCEPT !.via = "async_send_raw", !.command = command,
                              !.argument = argument, !.attempt = 1]
    /\ xch = NoXch
    /\ drv = NoDrv
    /\ io = NoIO
    /\ outcome = NoOutcome
    /\ data = NoData
    /\ last_update_success = TRUE
    /\ dev = SceneA
    /\ now = 0
    /\ leaked = 0
    /\ down = {}
    /\ model = MODEL_MTX48
    /\ fmp_trigger_state = NoTriggerState
    /\ hass = NoHass

EncodeDecode ==
    /\ pc = "encode"
    /\ LET payload == Payload(snd.command, snd.argument)
           frame == ParseLine(payload, snd.accept_commands)
       IN  /\ xch' = [NoXch EXCEPT !.raw = payload, !.received = <<payload>>,
                                   !.found = ~frame.skip,
                                   !.command = frame.command,
                                   !.argument = frame.argument]
           /\ Become([Here EXCEPT !.pc = "decoded", !.io.written = <<payload>>])
    /\ UNCHANGED <<dev, now, leaked, down>>

SpecCodec == InitCodec /\ [][EncodeDecode]_vars

\* A client is constructed with a source_id and writes the frame of a
\* command (lines 40-41 and 104-111).
MaxSourceIdLen == 5
SourceIdAlphabet == {"a", "b", Hash, Bar, NonAscii}

InitFrame ==
    /\ pc = "construct"
    /\ \E source_id \in Texts(SourceIdAlphabet, MaxSourceIdLen) :
          call = [NoCall EXCEPT !.op = "construct", !.source = source_id]
    /\ snd = NoSnd
    /\ xch = NoXch
    /\ drv = NoDrv
    /\ io = NoIO
    /\ outcome = NoOutcome
    /\ data = NoData
    /\ last_update_success = TRUE
    /\ dev = SceneA
    /\ now = 0
    /\ leaked = 0
    /\ down = {}
    /\ model = MODEL_MTX48
    /\ fmp_trigger_state = NoTriggerState
    /\ hass = NoHass

ConstructAndWrite(command, argument) ==
    /\ pc = "construct"
    /\ Become([Here EXCEPT !.pc = "written",
                           !.snd = [NoSnd EXCEPT !.command = command,
                                                 !.argument = argument,
                                                 !.attempt = 1],
                           !.io.written = <<PayloadOf(call.source, command, argument)>>])
    /\ UNCHANGED <<xch, dev, now, leaked, down>>

FrameInputs == {<<SV \o <<"1">>, <<"3", "0">>>>, <<GVALL, <<"0">>>>}

NextFrame == \E c \in FrameInputs : ConstructAndWrite(c[1], c[2])

SpecFrame == InitFrame /\ [][NextFrame]_vars

\* Raw commands and driver commands, all of them echoed by the device,
\* against a device that also sends unsolicited frames, over a network on
\* which every exchange succeeds.
RawInputs == {<<SV \o <<"1">>, <<"3", "0">>>>, <<SM \o <<"0", "1">>, <<"1">>>>}

NextRaw ==
    \/ \E c \in RawInputs, refresh \in BOOLEAN : CallSendRaw(c[1], c[2], refresh)
    \/ \E c \in RawInputs : CallCommandExpect(c[1], c[2], c[1])
    \/ Connect(TRUE)
    \/ Drain(TRUE, TRUE)
    \/ \E kind \in {"reply", "push"} : ReadLine(kind, 0)
    \/ WaitClosed(TRUE)

SpecRaw == Init /\ [][NextRaw]_vars

\* get_state without history and raw commands against a device whose
\* answers can be malformed lists and which pushes frames, over a network
\* that refuses connections.
ApiKinds == {"reply", "too_few", "junk", "empty", "push"}

NextApi ==
    \/ CallGetState(<<>>)
    \/ \E c \in RawInputs : CallSendRaw(c[1], c[2], FALSE)
    \/ Connect(TRUE)
    \/ Connect(FALSE)
    \/ Drain(TRUE, TRUE)
    \/ \E kind \in ApiKinds : ReadLine(kind, 0)
    \/ WaitClosed(TRUE)
    \/ SleepDone

SpecApi == Init /\ [][NextApi]_vars

\* Driver and raw commands against a device whose frames can carry other
\* destination and source fields.
NextForeign ==
    \/ \E c \in CommandInputs : CallCommandExpect(c[1], c[2], c[3])
    \/ \E zone \in Zones, v \in VolumeInputs : CallSetZoneVolume(zone, v, FALSE)
    \/ \E c \in RawInputs : CallSendRaw(c[1], c[2], FALSE)
    \/ Connect(TRUE)
    \/ Drain(TRUE, TRUE)
    \/ \E kind \in {"reply", "foreign", "push"} : ReadLine(kind, 0)
    \/ WaitClosed(TRUE)

SpecForeign == Init /\ [][NextForeign]_vars

\* The mutations of both drivers, called directly and by their entities, over
\* a network that refuses the connections of the commands in down.
InitMutate == InitModel(MODEL_MTX48) \/ InitModel(MODEL_XMP44)

MutateDownInputs ==
    {{}, {GTPS, GVALL},
     {SV \o <<"1">>, SR \o <<"1">>, SM \o <<"0", "1">>,
      SOG \o <<"1">>, SPAIR \o <<"1">>, SSTR \o <<"1">>}}

MutateOutage ==
    /\ pc = "idle"
    /\ down' \in MutateDownInputs \ {down}
    /\ UNCHANGED <<pc, call, snd, xch, drv, io, outcome, data,
                   last_update_success, dev, now, leaked, model,
                   fmp_trigger_state, hass>>

TriggerInputs == {0, 1, 15, 16}

NextMutate ==
    \/ model = MODEL_MTX48 /\ \E refresh \in BOOLEAN :
           CallSetZoneVolume(1, 30, refresh)
    \/ model = MODEL_MTX48 /\ \E refresh \in BOOLEAN :
           CallSetZoneSource(1, <<"2">>, refresh)
    \/ model = MODEL_MTX48 /\ \E refresh \in BOOLEAN :
           CallSetZoneMute(1, TRUE, refresh)
    \/ model = MODEL_XMP44 /\ \E refresh \in BOOLEAN :
           CallSetSlotGain(1, 0 - 5, refresh)
    \/ model = MODEL_XMP44 /\ \E refresh \in BOOLEAN :
           CallSetBmpPairing(1, TRUE, refresh)
    \/ model = MODEL_XMP44 /\ \E trigger_number \in TriggerInputs, start \in BOOLEAN :
           CallSetSlotTrigger(1, trigger_number, start)
    \/ model = MODEL_XMP44 /\ CallTriggerFmp(1)
    \/ MutateOutage
    \/ ConnectUp
    \/ ConnectDown
    \/ Drain(TRUE, TRUE)
    \/ ReadLine("reply", 0)
    \/ WaitClosed(TRUE)
    \/ SleepDone

SpecMutate == InitMutate /\ [][NextMutate]_vars

\* The same with the scheduled polls of the coordinator and the raw command
\* service.
NextSnapshot ==
    \/ NextMutate
    \/ model = MODEL_MTX48 /\ Tick
    \/ model = MODEL_XMP44 /\ TickXmp
    \/ \E refresh \in BOOLEAN : CallSendRaw(SR \o <<"1">>, <<"3">>, refresh)

SpecSnapshot == InitMutate /\ [][NextSnapshot]_vars

\* async_get_state from its three list replies on (lines 223-250), for any
\* zone_count: the lists are drawn from ListInputs, the number of zones from
\* 1..MaxZoneCount.
MaxZoneCount == 3
ListInputs ==
    {<<"5">>, <<"5", "^", "6">>, <<"5", "^", "6", "^", "7">>, <<"^">>,
     <<"x", "^", "6">>, <<"5", "^", "^", "7">>, <<"5", "^", "y", "^", "7">>}

InitBuild ==
    /\ pc = "split"
    /\ \E zone_count \in 1..MaxZoneCount :
          call = [NoCall EXCEPT !.op = "get_state", !.value = zone_count]
    /\ \E vol \in ListInputs, routing \in ListInputs, mute \in ListInputs :
          drv = [NoDrv EXCEPT !.phase = "firmware", !.vol = vol,
                              !.routing = routing, !.mute = mute]
    /\ snd = NoSnd
    /\ xch = NoXch
    /\ io = NoIO
    /\ outcome = NoOutcome
    /\ data = NoData
    /\ last_update_success = TRUE
    /\ dev = SceneA
    /\ now = 0
    /\ leaked = 0
    /\ down = {}
    /\ model = MODEL_MTX48
    /\ fmp_trigger_state = NoTriggerState
    /\ hass = NoHass

\* The lists are split and the zones built; drv keeps the lists.
SplitAndBuild ==
    /\ pc = "split"
    /\ Become([GetStateReturn(Here, BuildState(call.value, drv.vol, drv.routing,
                                               drv.mute, NoneText))
                  EXCEPT !.drv = drv])
    /\ UNCHANGED <<xch, dev, now, leaked, down>>

SpecBuild == InitBuild /\ [][SplitAndBuild]_vars

(***************************************************************************)
(* Properties.                                                             *)
(***************************************************************************)
\* The errors an exchange (_send_once) raises.
ExchangeErrorKinds == {"TcpFailed", "EmptyReply", "NoExpectedReply", "InvalidFrame"}

\* C1: a dispatcher command whose exchange attempts all fail has made exactly
\* 3 attempts, has slept 0.15 s after the first and 0.30 s after the second
\* and not after the third, and raises the error of the third attempt.
C1_RetryBudget ==
    (pc = "idle" /\ outcome.status = "raised"
                 /\ outcome.err.kind \in ExchangeErrorKinds)
    => /\ io.opens = 3
       /\ io.sleeps = <<15, 30>>
       /\ outcome.err.attempt = 3

\* Three refused connections: the command has failed and the budget is spent.
C1_Witness ==
    /\ pc = "idle"
    /\ outcome.status = "raised"
    /\ outcome.err = Err("TcpFailed", 3, <<>>)
    /\ io.written = <<>>
    /\ io.sleeps = <<15, 30>>

\* The fields of a received line, and whether the line is a well-formed frame
\* whose command tag is one of the tags.
FrameFields(raw) == Split(Strip(DecodeAscii(raw)), Bar)
Acceptable(raw, tags) ==
    /\ Len(FrameFields(raw)) >= 6
    /\ FrameFields(raw)[1] = <<Hash>>
    /\ Strip(FrameFields(raw)[4]) \in tags

\* C2: the frame an exchange with accept_commands returns is the first
\* well-formed frame, in arrival order, whose tag is in accept_commands;
\* every line received before it is passed over.
C2_FirstAcceptedFrame ==
    (xch.found /\ snd.accept_commands.some)
    => LET n == Len(xch.received)
           tags == snd.accept_commands.tags
       IN  /\ n >= 1
           /\ Acceptable(xch.received[n], tags)
           /\ \A i \in 1..(n - 1) : ~Acceptable(xch.received[i], tags)
           /\ xch.command = Strip(FrameFields(xch.received[n])[4])
           /\ xch.argument = Strip(FrameFields(xch.received[n])[5])

\* An "MU" push, then the "VALL" frame: the exchange returns the latter.
C2_Witness ==
    /\ pc = "wait_closed"
    /\ xch.found
    /\ snd.accept_commands = AcceptOnly({VALL})
    /\ Len(xch.received) = 2
    /\ xch.received[1] = FrameLine(<<"M", "U">>, <<"1">>)
    /\ xch.command = VALL

\* The step in which async_get_state ends after its firmware command.
GetStateEnds ==
    /\ call.op \in {"get_state", "refresh"}
    /\ drv.phase = "firmware"
    /\ pc' = "idle"

\* The list the device holds for a list command.
FreshList(command) == DeviceReply(dev, Payload(command, <<"0">>)).argument

\* C3: with a history that covers every zone, when only the routing read
\* failed on all attempts and the volume and mute reads returned the device's
\* lists, get_state succeeds, every zone's source is the one of the history
\* and every zone's volume and mute are the ones read.
C3_FallbackLaw ==
    [][(/\ GetStateEnds
        /\ DOMAIN drv.previous_zones = Zones
        /\ drv.fallbacks = {"source"}
        /\ drv.vol = FreshList(GVALL)
        /\ drv.mute = FreshList(GMALL))
       => /\ outcome'.status = "ok"
          /\ \A zone \in Zones :
                /\ outcome'.state.zones[zone].source = drv.previous_zones[zone].source
                /\ outcome'.state.zones[zone].volume_db = dev[zone].volume
                /\ outcome'.state.zones[zone].mute = dev[zone].mute]_vars

\* The device was changed after the last good poll and the routing read of
\* this poll failed: the stored sources are the old ones, the volumes new.
C3_Witness ==
    /\ pc = "idle"
    /\ outcome.call.op = "refresh"
    /\ outcome.status = "ok"
    /\ outcome.fallbacks = {"source"}
    /\ \A zone \in Zones :
          /\ data.zones[zone].source # dev[zone].source
          /\ data.zones[zone].volume = dev[zone].volume
          /\ data.zones[zone].mute = dev[zone].mute

\* C4: whichever bulk read fell back, its field is taken zone by zone from
\* the history, with 0, "0" and false for a zone the history lacks, and
\* get_state does not fail because of that read.
C4_UniformFallback ==
    [][(/\ GetStateEnds
        /\ drv.fallbacks # {}
        /\ "volume" \notin drv.fallbacks => drv.vol = FreshList(GVALL)
        /\ "source" \notin drv.fallbacks => drv.routing = FreshList(GRALL)
        /\ "mute" \notin drv.fallbacks => drv.mute = FreshList(GMALL))
       => /\ outcome'.status = "ok"
          /\ \A zone \in Zones :
                LET known == zone \in DOMAIN drv.previous_zones
                    got == outcome'.state.zones[zone]
                IN  /\ "volume" \in drv.fallbacks =>
                          got.volume_db =
                              IF known THEN drv.previous_zones[zone].volume ELSE 0
                    /\ "source" \in drv.fallbacks =>
                          got.source =
                              IF known THEN drv.previous_zones[zone].source
                              ELSE <<"0">>
                    /\ "mute" \in drv.fallbacks =>
                          got.mute =
                              IF known THEN drv.previous_zones[zone].mute
                              ELSE FALSE]_vars

BulkPhases == {"volume", "source", "mute"}

\* C5: when a bulk read of get_state fails on its last attempt and there is
\* no history, get_state raises that error and gives no state; a poll of the
\* coordinator ends as an update failure and the stored data stay as they are.
C5_NoHistoryPropagates ==
    [][(/\ call.op \in {"get_state", "refresh"}
        /\ drv.phase \in BulkPhases
        /\ drv.previous_zones = <<>>
        /\ snd.attempt = Attempts
        /\ pc = "connect"
        /\ pc' # "drain")
       => /\ pc' = "idle"
          /\ outcome'.err = Err("TcpFailed", Attempts, <<>>)
          /\ outcome'.state = NoState
          /\ data' = data
          /\ IF call.op = "get_state"
             THEN outcome'.status = "raised"
             ELSE outcome'.status = "update_failed" /\ ~last_update_success']_vars

\* The first poll failed in its routing read: no data are stored.
C5_Witness ==
    /\ pc = "idle"
    /\ outcome.call.op = "refresh"
    /\ outcome.status = "update_failed"
    /\ outcome.err = Err("TcpFailed", Attempts, <<>>)
    /\ ~data.present
    /\ ~last_update_success

\* C6: whenever no exchange is in flight, no connection the client opened is
\* still open.
C6_ConnectionsClosed ==
    pc \in {"idle", "sleep"} => leaked = 0

\* C7: set_zone_volume with a volume below 0 or above 70 raises before any
\* I/O: it never reaches an await, and it ends with no connection opened, no
\* frame written and no sleep.
C7_RangeCheckedFirst ==
    /\ call.op = "set_zone_volume" => call.value \in 0..70
    /\ (pc = "idle" /\ outcome.call.op = "set_zone_volume"
                    /\ outcome.call.value \notin 0..70)
       => /\ outcome.status = "raised"
          /\ outcome.err.kind = "VolumeOutOfRange"
          /\ io = NoIO

C7_Witness ==
    /\ pc = "idle"
    /\ outcome.call.op = "set_zone_volume"
    /\ outcome.call.value = 71
    /\ outcome.err.kind = "VolumeOutOfRange"

\* The set_zone_volume call that runs or has just ended.
SetCall ==
    IF call.op = "set_zone_volume" THEN call ELSE outcome.call

\* C8, as first stated: a call of set_zone_volume with a volume in 0..70
\* has written exactly one frame when it ends.
C8_ExactlyOneFrame ==
    (pc = "idle" /\ outcome.call.op = "set_zone_volume"
                 /\ outcome.call.value \in 0..70)
    => Len(io.written) = 1

\* C8, amended: every frame a call of set_zone_volume(zone, v) writes has
\* command SV{zone} and argument v; it writes one frame per attempt that
\* connected, at most 3, and exactly one when the first attempt is answered.
C8_OneFramePerAttempt ==
    (SetCall.op = "set_zone_volume" /\ SetCall.value \in 0..70)
    => /\ \A i \in 1..Len(io.written) :
             /\ DeviceRequest(io.written[i]).command = SV \o IntToStr(SetCall.zone)
             /\ DeviceRequest(io.written[i]).argument = IntToStr(SetCall.value)
       /\ Len(io.written) <= io.opens
       /\ io.opens <= 3
       /\ (pc = "idle" /\ outcome.status = "ok" /\ io.opens = 1)
          => Len(io.written) = 1

\* The first attempt timed out in its read: the frame was written twice.
C8_Witness ==
    /\ pc = "idle"
    /\ outcome.call.op = "set_zone_volume"
    /\ outcome.call.zone = ZoneCount
    /\ outcome.call.value = 70
    /\ outcome.status = "ok"
    /\ Len(io.written) = 2

\* The refresh that follows a set_zone_volume has ended as a successful update.
RefreshAfterSetDone ==
    /\ pc = "idle"
    /\ outcome.call.op = "refresh"
    /\ outcome.call.refresh
    /\ outcome.status = "ok"

\* C9, as first stated: after set_zone_volume(zone, v) and a successful
\* refresh the stored volume of the zone is v.
C9_StoredVolumeIsSet ==
    RefreshAfterSetDone
    => data.zones[outcome.call.zone].volume = outcome.call.value

\* C9, amended: the same, provided the volume read of the refresh did not
\* fall back to the history.
C9_StoredVolumeIsSetUnlessFallback ==
    (RefreshAfterSetDone /\ "volume" \notin outcome.fallbacks)
    => /\ data.present
       /\ data.zones[outcome.call.zone].volume = outcome.call.value

\* A second mutation was read back although the routing read fell back.
C9_Witness ==
    /\ RefreshAfterSetDone
    /\ outcome.fallbacks = {"source"}
    /\ outcome.call.value = 70
    /\ data.zones[1].volume = 70

Items(list) == Split(list, Caret)

\* C14: when the firmware command fails on its last attempt, get_state does
\* not fail with that error; with three lists of one item per zone it
\* succeeds, its firmware is None, also in the data a poll stores, and its
\* zones are the items of the three lists.
C14_FirmwareOptional ==
    [][(/\ GetStateEnds
        /\ snd.attempt = Attempts
        /\ pc = "connect")
       => /\ outcome'.err.kind # "TcpFailed"
          /\ (\A list \in {drv.vol, drv.routing, drv.mute} :
                 Len(Items(list)) = ZoneCount)
             => /\ outcome'.status = "ok"
                /\ outcome'.state.firmware = NoneText
                /\ call.op = "refresh" => data'.firmware = NoneText
                /\ \A zone \in Zones :
                      /\ outcome'.state.zones[zone].volume_db =
                             ParseInt(Items(drv.vol)[zone]).value
                      /\ outcome'.state.zones[zone].source =
                             Items(drv.routing)[zone]
                      /\ outcome'.state.zones[zone].mute =
                             (Items(drv.mute)[zone] = <<"1">>)]_vars

\* A poll without firmware after the device was changed: the zones are new.
C14_Witness ==
    /\ pc = "idle"
    /\ outcome.call.op = "refresh"
    /\ outcome.status = "ok"
    /\ outcome.fallbacks = {}
    /\ data.firmware = NoneText
    /\ data.zones = SceneB

\* The error of the exchange attempt that has just failed.
AttemptError == IF pc = "idle" THEN outcome.err ELSE snd.last_error

\* The step in which an exchange attempt raises from its read.
ReadRaises == pc = "read" /\ pc' \notin {"read", "wait_closed"}

\* The step in which an attempt without a frame ends after closing its writer.
CloseEndsNoFrame == pc = "wait_closed" /\ pc' # "wait_closed" /\ ~xch.found

\* C16, as first stated: an attempt with accept_commands that fails at its
\* deadline after lines were received, none of them accepted, fails with
\* the no-accepted-reply error.
C16_DeadlineGivesNoAcceptedReply ==
    [][(\/ ReadRaises /\ xch.received # <<>>
        \/ CloseEndsNoFrame /\ xch.raw # <<>> /\ AttemptError'.kind # "TcpFailed")
       => AttemptError'.kind = "NoExpectedReply"]_vars

\* C16, amended: an attempt that leaves its read loop without a frame fails
\* with the empty-reply error when its last read returned the end of the
\* stream and with the no-accepted-reply error when it had accept_commands
\* and the deadline had passed after a skipped line, unless closing fails;
\* an attempt whose read times out fails with the transport error.
C16_ReadLoopErrors ==
    [][/\ CloseEndsNoFrame
          => AttemptError'.kind \in
                IF xch.raw = <<>> THEN {"EmptyReply", "TcpFailed"}
                ELSE {"NoExpectedReply", "TcpFailed"}
       /\ (CloseEndsNoFrame /\ AttemptError'.kind = "NoExpectedReply")
          => xch.received # <<>> /\ now >= xch.deadline
       /\ ReadRaises => AttemptError'.kind = "TcpFailed"]_vars

\* An attempt ended at its deadline after a push and a fragment.
C16_Witness ==
    /\ pc = "sleep"
    /\ snd.last_error.kind = "NoExpectedReply"
    /\ snd.attempt = 1

\* The number of non-blank items of a list, and the first zone for which one
\* of the three lists has no item.
TokenCount(list) ==
    Cardinality({i \in 1..Len(Items(list)) : Strip(Items(list)[i]) # <<>>})
FewestTokens ==
    CHOOSE n \in {TokenCount(drv.vol), TokenCount(drv.routing), TokenCount(drv.mute)} :
        \A list \in {drv.vol, drv.routing, drv.mute} : n <= TokenCount(list)
Built == pc = "idle" /\ outcome.call.op = "get_state" /\ drv.phase = "firmware"

\* C15, as first stated: a list with fewer non-blank tokens than zone_count
\* makes get_state raise TooFewValues, and the error names the first zone
\* for which a value is missing.
C15_NamesOffendingZone ==
    (Built /\ FewestTokens < outcome.call.value)
    => /\ outcome.status = "raised"
       /\ outcome.err.kind = "TooFewValues"
       /\ outcome.err.detail = IntToStr(FewestTokens + 1)

\* C15, amended: when every list has a token, one has fewer than zone_count,
\* and the volume tokens of the zones before the first missing one are
\* integers, get_state raises TooFewValues and the error names zone_count.
C15_NamesZoneCount ==
    (/\ Built
     /\ FewestTokens >= 1
     /\ FewestTokens < outcome.call.value
     /\ \A zone \in 1..FewestTokens :
           ParseInt(NonBlankStripped(Items(drv.vol))[zone]).ok)
    => /\ outcome.status = "raised"
       /\ outcome.err.kind = "TooFewValues"
       /\ outcome.err.detail = IntToStr(outcome.call.value)

\* Three zones asked, a routing list of one item: zone 2 is the first
\* without a value and the error names 3.
C15_Witness ==
    /\ Built
    /\ outcome.call.value = 3
    /\ TokenCount(drv.routing) = 1
    /\ TokenCount(drv.vol) = 3
    /\ outcome.err = Err("TooFewValues", 0, <<"3">>)

\* The field a per-slot query fills, and what the modular player holds for it.
FieldOf(slot_state, query) ==
    CASE query = 1 -> slot_state.gain
      [] query = 2 -> slot_state.player_status
      [] query = 3 -> slot_state.song
      [] query = 4 -> slot_state.station
      [] query = 5 -> slot_state.program
      [] query = 6 -> slot_state.info
      [] query = 7 -> slot_state.pairing
HeldBySlot(query, slot) ==
    IF query = 1
    THEN (IF slot = SlotCount THEN NoneInt ELSE SomeInt(slot))
    ELSE Some(XmpDeviceValue(query, slot))
NoneOf(query) == IF query = 1 THEN NoneInt ELSE NoneText
XmpOps == {"xmp_get_state", "xmp_refresh"}

\* The step in which the modular-player async_get_state ends.
XmpGetStateEnds == call.op \in XmpOps /\ pc # "idle" /\ pc' = "idle"

\* C11: when the module-type command is answered, modular-player get_state
\* does not fail whichever per-slot queries fail; a field is None when its
\* query failed and is what the device holds otherwise, in every slot.
C11_BestEffortQueries ==
    [][(XmpGetStateEnds /\ GTPS \notin down)
       => /\ outcome'.status = "ok"
          /\ DOMAIN outcome'.state.slots = Slots
          /\ \A slot \in Slots, query \in 1..7 :
                FieldOf(outcome'.state.slots[slot], query) =
                    IF XmpCommand(query, slot) \in down
                    THEN NoneOf(query)
                    ELSE HeldBySlot(query, slot)]_vars

\* The song of slot 1 and the pairing of the last slot failed: the fields
\* next to them are reported.
C11_Witness ==
    /\ pc = "idle"
    /\ outcome.call.op = "xmp_get_state"
    /\ outcome.status = "ok"
    /\ outcome.state.slots[1].song = NoneText
    /\ outcome.state.slots[1].station.some
    /\ outcome.state.slots[1].player_status.some
    /\ outcome.state.slots[SlotCount].pairing = NoneText
    /\ outcome.state.slots[SlotCount].info.some

\* C12: a modular-player poll ends as an update failure exactly when the
\* module-type command fails on all attempts, and then the stored data stay;
\* otherwise the stored slots are the ones just read, with None for every
\* field whose query failed, whatever was stored before.
C12_NoMergeInXmpMode ==
    [][(XmpGetStateEnds /\ call.op = "xmp_refresh")
       => /\ outcome'.status \in {"ok", "update_failed"}
          /\ (outcome'.status = "update_failed") <=> (GTPS \in down)
          /\ (outcome'.status = "update_failed") <=> (drv.phase = "tps")
          /\ outcome'.status = "update_failed" => data' = data
          /\ outcome'.status = "ok" =>
                /\ data'.slots = outcome'.state.slots
                /\ \A slot \in Slots, query \in 1..7 :
                      XmpCommand(query, slot) \in down
                      => FieldOf(data'.slots[slot], query) = NoneOf(query)]_vars

\* The song of slot 1 failed in the last poll: it is None in the data.
C12_Witness ==
    /\ pc = "idle"
    /\ outcome.call.op = "xmp_refresh"
    /\ outcome.status = "ok"
    /\ XmpCommand(3, 1) \in down
    /\ data.slots[1].song = NoneText
    /\ data.slots[1].station.some

\* What the two unchanged devices hold, as the drivers report it.
MtxSnapshot ==
    [firmware |-> Some(DeviceFirmware),
     zones |-> [zone \in Zones |-> [volume_db |-> SceneA[zone].volume,
                                    source |-> SceneA[zone].source,
                                    mute |-> SceneA[zone].mute]]]
XmpSnapshot ==
    [slots |-> [slot \in Slots |->
        [module |-> IF slot = 1 THEN XMP_MODULE_DMP42 ELSE XMP_MODULE_FMP40,
         module_label |-> NoneText,
         gain |-> HeldBySlot(1, slot),
         player_status |-> HeldBySlot(2, slot),
         song |-> HeldBySlot(3, slot),
         station |-> HeldBySlot(4, slot),
         program |-> HeldBySlot(5, slot),
         info |-> HeldBySlot(6, slot),
         pairing |-> HeldBySlot(7, slot)]]]

\* C19: against unchanged devices, with every exchange succeeding, every
\* get_state of a driver returns the same snapshot, whatever history is
\* passed: the matrix mixer's zones and firmware, the player's slots.
C19_Idempotent ==
    (pc = "idle" /\ outcome.status # "none")
    => /\ outcome.status = "ok"
       /\ outcome.call.op = "get_state" => outcome.state = MtxSnapshot
       /\ outcome.call.op = "xmp_get_state" => outcome.state = XmpSnapshot

\* A get_state with a history that differs from the device has returned.
C19_Witness ==
    /\ pc = "idle"
    /\ outcome.call.op = "get_state"
    /\ outcome.state = MtxSnapshot

\* The mutations of the two drivers.
MutationOps == {"set_zone_volume"} \cup MtxMutations \cup XmpMutations

\* The step in which the dispatcher call of a mutation ends without a frame
\* after its last attempt.
MutationDispatchFails ==
    /\ call.op \in MutationOps
    /\ snd.attempt = Attempts
    /\ snd' # snd
    /\ ~(pc = "wait_closed" /\ xch.found)

\* C13: when the dispatcher call of a mutation fails after its last attempt,
\* the call that requested the mutation ends with the error of that attempt:
\* it returns no state and no reply, no refresh starts, and the stored data,
\* the update flag and the trigger descriptions are left as they were.
C13_MutationErrorsPropagate ==
    [][MutationDispatchFails
       => /\ pc' = "idle"
          /\ outcome'.status = "raised"
          /\ outcome'.call = call
          /\ outcome'.err.kind \in ExchangeErrorKinds
          /\ outcome'.err.attempt = Attempts
          /\ outcome'.state = NoState
          /\ outcome'.argument = <<>>
          /\ io'.opens = Attempts
          /\ data' = data
          /\ last_update_success' = last_update_success
          /\ fmp_trigger_state' = fmp_trigger_state]_vars

\* The mute switch of zone 1 failed after a refresh had stored the zone as
\* not muted: the stored state is as it was.
C13_Witness ==
    /\ pc = "idle"
    /\ outcome.call.op = "set_zone_mute"
    /\ outcome.call.refresh
    /\ outcome.status = "raised"
    /\ io.opens = Attempts
    /\ data.present
    /\ ~data.zones[1].mute

\* C17: send_raw(command, argument) skips the frames with other command
\* tags, as _command_expect with reply tag command does: the frame its
\* exchange takes carries the tag command, and the call does not fail with
\* the unexpected-reply error.
C17_RawSkipsUnsolicited ==
    /\ (snd.via = "async_send_raw" /\ xch.found) => xch.command = snd.command
    /\ (pc = "idle" /\ outcome.call.op = "send_raw")
       => outcome.err.kind # "UnexpectedRawReply"

\* C18: decoding the bytes a command and an argument were encoded to gives
\* a frame, whose command and argument are the trimmed inputs.
C18_RoundTrip ==
    pc = "decoded"
    => /\ xch.found
       /\ xch.command = Strip(snd.command)
       /\ xch.argument = Strip(snd.argument)

\* The fields of the frame written.
WrittenFields == Split(io.written[1], Bar)

\* C20: the frame written has the fields #, destination, source_id, command,
\* argument, U and ends with CRLF; its source_id is the configured one
\* without # and |, "ha" if that is empty, cut to 4 characters, and so has 1
\* to 4 characters, none of them # or |.
C20_FrameFields ==
    pc = "written"
    => /\ Len(WrittenFields) = 7
       /\ WrittenFields[1] = <<Hash>>
       /\ WrittenFields[2] = self_device_address
       /\ WrittenFields[3] = CleanSourceId(call.source)
       /\ Len(WrittenFields[3]) \in 1..4
       /\ \A i \in 1..Len(WrittenFields[3]) : WrittenFields[3][i] \notin {Hash, Bar}
       /\ WrittenFields[4] = snd.command
       /\ WrittenFields[5] = snd.argument
       /\ WrittenFields[6] = <<"U">>
       /\ WrittenFields[7] = CRLF

\* The configured module of a slot, normalized; "auto" when none is configured.
ConfiguredOf(slot) ==
    IF slot \in DOMAIN drv.configured_modules
    THEN normalize_xmp_module(drv.configured_modules[slot])
    ELSE XMP_MODULE_AUTO

\* C21: the module of each slot is the configured one, normalized, when that
\* is not "auto", else the one detected from the TPS reply for the slot,
\* else "none"; it is never "auto" and never the alias "rmp40".
C21_EffectiveModule ==
    pc = "resolved"
    => \A slot \in Slots :
          LET module == drv.slots[slot].module
              detected == ParseTps(xch.argument, SlotCount)
          IN  /\ ConfiguredOf(slot) # XMP_MODULE_AUTO => module = ConfiguredOf(slot)
              /\ (ConfiguredOf(slot) = XMP_MODULE_AUTO /\ slot <= Len(detected))
                 => module = detected[slot]
              /\ (ConfiguredOf(slot) = XMP_MODULE_AUTO /\ slot > Len(detected))
                 => module = XMP_MODULE_NONE
              /\ module \notin {XMP_MODULE_AUTO, XMP_MODULE_RMP40}

\* Slot 1 is configured " Auto " and the reply names one slot only, slot 2
\* is configured "RMP40".
C21_Witness ==
    /\ pc = "resolved"
    /\ DOMAIN drv.configured_modules = Slots
    /\ drv.configured_modules[1] = <<" ", "A", "u", "t", "o">>
    /\ drv.configured_modules[SlotCount] = <<"R", "M", "P", "4", "0">>
    /\ xch.argument = <<"6">>
    /\ drv.slots[1].module = XMP_MODULE_FMP40
    /\ drv.slots[SlotCount].module = XMP_MODULE_FMP40

\* The set_slot_trigger call that runs or has just ended.
TriggerCall ==
    IF call.op = "set_slot_trigger" THEN call ELSE outcome.call

\* C22: set_slot_trigger(slot, contact, start) with a contact outside 1..15
\* raises before any connection is opened; with a contact in 1..15 every
\* frame it writes has command SSTR{slot} and argument "{contact}^1" for
\* start, "{contact}^0" for stop, and the call returns the argument of the
\* device's reply frame.
C22_SlotTrigger ==
    /\ (pc = "idle" /\ outcome.call.op = "set_slot_trigger"
                    /\ outcome.call.value \notin 1..15)
       => /\ outcome.status = "raised"
          /\ outcome.err.kind = "TriggerOutOfRange"
          /\ io = NoIO
    /\ (TriggerCall.op = "set_slot_trigger" /\ TriggerCall.value \in 1..15)
       => \A i \in 1..Len(io.written) :
             /\ DeviceRequest(io.written[i]).command = SSTR \o IntToStr(TriggerCall.zone)
             /\ DeviceRequest(io.written[i]).argument =
                    IntToStr(TriggerCall.value) \o <<Caret>>
                    \o (IF TriggerCall.flag THEN <<"1">> ELSE <<"0">>)
    /\ (pc = "idle" /\ outcome.call.op = "set_slot_trigger" /\ outcome.status = "ok")
       => /\ outcome.call.value \in 1..15
          /\ io.written # <<>>
          /\ outcome.argument =
                 Strip(DeviceReply(dev, io.written[Len(io.written)]).argument)

\* A stop of contact 15 was answered with a text, which the call returned.
C22_Witness ==
    /\ pc = "idle"
    /\ outcome.call.op = "set_slot_trigger"
    /\ outcome.call.value = 15
    /\ ~outcome.call.flag
    /\ outcome.status = "ok"
    /\ outcome.argument = <<"b", "u", "s", "y">>
    /\ DeviceRequest(io.written[1]).argument = <<"1", "5", "^", "0">>

\* C23: for every slot the stored action is "start" or "stop" and the
\* stored contact is in 1..15, and the getters return them; a contact set is
\* stored clamped to 1..15; an action set is stored, trimmed and in lower
\* case, when that is "start" or "stop", and is rejected otherwise, leaving
\* the trigger settings as they were.
C23_TriggerSettingsValid ==
    /\ []( /\ \A slot \in Slots :
              /\ GetFmpTriggerAction(slot) \in {<<"s", "t", "a", "r", "t">>,
                                                <<"s", "t", "o", "p">>}
              /\ GetFmpTriggerContact(slot) \in 1..15
              /\ GetFmpTriggerContact(slot) = fmp_trigger_state[slot].contact
           /\ outcome.call.op = "set_fmp_trigger_contact"
              => /\ outcome.status = "ok"
                 /\ fmp_trigger_state[outcome.call.zone].contact =
                        (IF outcome.call.value < 1 THEN 1
                         ELSE IF outcome.call.value > 15 THEN 15
                         ELSE outcome.call.value)
           /\ outcome.call.op = "set_fmp_trigger_action"
              => IF Lower(Strip(outcome.call.source)) \in {<<"s", "t", "a", "r", "t">>,
                                                           <<"s", "t", "o", "p">>}
                 THEN /\ outcome.status = "ok"
                      /\ fmp_trigger_state[outcome.call.zone].action =
                             Lower(Strip(outcome.call.source))
                 ELSE outcome.status = "raised")
    /\ [][(outcome'.call.op = "set_fmp_trigger_action" /\ outcome'.status = "raised")
          => fmp_trigger_state' = fmp_trigger_state]_vars

\* C23 as stated: an action set with any value other than "start" or "stop"
\* is rejected.
C23_AsStated ==
    (/\ outcome.call.op = "set_fmp_trigger_action"
     /\ outcome.call.source \notin {<<"s", "t", "a", "r", "t">>, <<"s", "t", "o", "p">>})
    => outcome.status = "raised"

\* "pause" was rejected after "stop" and contact 16 had been set.
C23_Witness ==
    /\ pc = "idle"
    /\ outcome.call.op = "set_fmp_trigger_action"
    /\ outcome.call.source = <<"p", "a", "u", "s", "e">>
    /\ outcome.status = "raised"
    /\ fmp_trigger_state[1].action = FMP_TRIGGER_ACTION_STOP
    /\ fmp_trigger_state[1].contact = 15

\* The description async_trigger_fmp keeps for a reply.
ExpectedDescription(reply, contact, action) ==
    IF reply = <<>> THEN NoneText
    ELSE IF reply = <<"+">>
         THEN Some(<<"T", "r", "i", "g", "g", "e", "r", " ">> \o IntToStr(contact)
                   \o <<" ">> \o action)
         ELSE Some(reply)

\* C24: a pressed trigger button sends the action and contact stored for
\* its slot when it is pressed, in every frame it writes, and when the
\* device answers it stores the reply text as the slot's description,
\* "Trigger {contact} {action}" for the reply "+" (none for a blank reply),
\* and nothing else.
C24_ExecuteTrigger ==
    /\ [][/\ (pc = "idle" /\ call'.op = "set_slot_trigger" /\ call'.refresh)
             => /\ call'.value = fmp_trigger_state[call'.zone].contact
                /\ call'.source = fmp_trigger_state[call'.zone].action
                /\ call'.flag = (call'.source = <<"s", "t", "a", "r", "t">>)
          /\ (call.op = "set_slot_trigger" /\ call.refresh /\ call'.op = "xmp_refresh")
             => fmp_trigger_state' =
                   [fmp_trigger_state EXCEPT
                       ![call.zone].description =
                           ExpectedDescription(xch.argument, call.value, call.source)]]_vars
    /\ []((call.op = "set_slot_trigger" /\ call.refresh)
          => \A i \in 1..Len(io.written) :
                /\ DeviceRequest(io.written[i]).command = SSTR \o IntToStr(call.zone)
                /\ DeviceRequest(io.written[i]).argument =
                       IntToStr(call.value) \o <<Caret>>
                       \o (IF call.source = <<"s", "t", "a", "r", "t">>
                           THEN <<"1">> ELSE <<"0">>))

\* A stop of contact 1 was acknowledged with "+"; the refresh has ended.
C24_Witness ==
    /\ pc = "idle"
    /\ outcome.call.op = "xmp_refresh"
    /\ outcome.call.refresh
    /\ outcome.call.zone = 1
    /\ fmp_trigger_state[1].description =
           Some(<<"T", "r", "i", "g", "g", "e", "r", " ", "1", " ", "s", "t", "o", "p">>)

\* A step of a poll: its start, or a step of the code of a running one.
PollStep ==
    \/ pc = "idle" /\ call'.op = "xmp_refresh"
    \/ call.op = "xmp_refresh" /\ (pc' # pc \/ snd' # snd \/ xch' # xch)

\* The fields of a slot of the polled state.
SlotFields ==
    {"module", "module_label", "gain", "player_status", "song", "station",
     "program", "info", "pairing"}

\* C25: no step of a poll, whether it ends as a successful or as a failed
\* update, changes the trigger action, contact or description of a slot,
\* and the stored state of a slot has the polled fields only.
C25_TriggerStateIsLocal ==
    /\ [][PollStep => fmp_trigger_state' = fmp_trigger_state]_vars
    /\ [](data.present
          => /\ DOMAIN data = {"present", "firmware", "slots"}
             /\ \A slot \in DOMAIN data.slots : DOMAIN data.slots[slot] = SlotFields)

\* A poll failed after a trigger had left a description and the settings
\* had been changed.
C25_Witness ==
    /\ pc = "idle"
    /\ outcome.call.op = "xmp_refresh"
    /\ ~outcome.call.refresh
    /\ outcome.status = "update_failed"
    /\ data.present
    /\ fmp_trigger_state[1].action = FMP_TRIGGER_ACTION_STOP
    /\ fmp_trigger_state[1].contact = 7
    /\ fmp_trigger_state[1].description = Some(<<"b", "u", "s", "y">>)

\* C26: in every state the coordinator stores in matrix-mixer mode the
\* volume of every zone is an integer in 0..70.
C26_StoredVolumeInRange ==
    data.present
    => \A zone \in DOMAIN data.zones : data.zones[zone].volume \in 0..70

\* The step in which a poll of the coordinator ends.
TickEnds == call.op = "refresh" /\ pc # "idle" /\ pc' = "idle"

\* The list async_get_state holds for a field, and whether a list lacks
\* values for the zones or, for the volumes, holds one that is no integer.
HeldList(field) ==
    CASE field = "volume" -> drv.vol
      [] field = "source" -> drv.routing
      [] field = "mute" -> drv.mute

MalformedList(list, field) ==
    LET values == NonBlankStripped(Split(list, Caret))
    IN  \/ Len(values) < ZoneCount
        \/ /\ field = "volume"
           /\ \E zone \in 1..ZoneCount : ~ParseInt(values[zone]).ok

\* C27: a poll that starts with a stored matrix-mixer state always reaches
\* its firmware command; it ends as an update failure exactly when a list
\* that was received (not taken from the stored state) is malformed, and
\* the stored state is kept then; otherwise it ends as a successful update
\* in which every field whose read failed has the previously stored values.
C27_HistoryAbsorbsFailures ==
    [][(TickEnds /\ data.present)
       => /\ drv.phase = "firmware"
          /\ drv.previous_zones = data.zones
          /\ IF \E field \in BulkPhases \ drv.fallbacks :
                    MalformedList(HeldList(field), field)
             THEN /\ outcome'.status = "update_failed"
                  /\ outcome'.err.kind \in {"EmptyList", "TooFewValues", "InvalidVolume"}
                  /\ data' = data
             ELSE /\ outcome'.status = "ok"
                  /\ last_update_success'
                  /\ \A zone \in Zones :
                        /\ "volume" \in drv.fallbacks
                           => data'.zones[zone].volume = data.zones[zone].volume
                        /\ "source" \in drv.fallbacks
                           => data'.zones[zone].source = data.zones[zone].source
                        /\ "mute" \in drv.fallbacks
                           => data'.zones[zone].mute = data.zones[zone].mute]_vars

\* Every command of a poll failed after the device had been changed: the
\* update is successful and the stored zones are the previous ones.
C27_Witness ==
    /\ pc = "idle"
    /\ outcome.call.op = "refresh"
    /\ outcome.status = "ok"
    /\ outcome.fallbacks = BulkPhases
    /\ ~data.firmware.some
    /\ last_update_success
    /\ \A zone \in Zones : data.zones[zone].volume # dev[zone].volume

\* The step in which the exchange of the current attempt raises.
AttemptRaises ==
    \/ pc' = "sleep" /\ snd'.last_error = Err("TcpFailed", snd.attempt, <<>>)
    \/ /\ pc' = "idle"
       /\ outcome'.status = "raised"
       /\ outcome'.err = Err("TcpFailed", snd.attempt, <<>>)

\* C28: when the exchange of attempt k returns a frame, the command returns
\* that frame in the same step, without a further attempt, sleep or
\* connection: k connections were opened and the k-1 sleeps taken are those
\* of 0.15 s times 1..k-1.
C28_FrameEndsCommand ==
    /\ [][(pc = "wait_closed" /\ pc' # "wait_closed" /\ xch.found /\ ~AttemptRaises)
          => /\ pc' = "idle"
             /\ outcome'.status = "ok"
             /\ outcome'.argument = xch.argument
             /\ io' = io
             /\ io.opens = snd.attempt
             /\ snd.attempt \in 1..3
             /\ io.sleeps = [i \in 1..(snd.attempt - 1) |-> 15 * i]]_vars
    /\ []((pc = "idle" /\ outcome.status = "ok")
          => /\ io.opens \in 1..3
             /\ io.sleeps = [i \in 1..(io.opens - 1) |-> 15 * i])

\* The third attempt returned the frame, after two sleeps.
C28_Witness ==
    /\ pc = "idle"
    /\ outcome.status = "ok"
    /\ outcome.argument = FreshList(GVALL)
    /\ io.opens = 3
    /\ io.sleeps = <<15, 30>>

\* A line of fewer than 6 fields, or whose first field is not "#".
MalformedLine(raw) ==
    \/ Len(FrameFields(raw)) < 6
    \/ FrameFields(raw)[1] # <<Hash>>

\* The line the step has read, when the step is the return of a read.
LineRead == xch'.received[Len(xch'.received)]

\* C29: a malformed line that was read is passed over: no frame is found,
\* nothing is raised, no attempt, connection or sleep is added, and the
\* next read is awaited on the same open connection unless the deadline has
\* been reached; an acceptable frame read after malformed lines is the
\* frame the exchange has found.
C29_MalformedSkipped ==
    [][(pc = "read" /\ Len(xch'.received) = Len(xch.received) + 1)
       => /\ MalformedLine(LineRead)
             => /\ ~xch'.found
                /\ snd' = snd
                /\ io' = io
                /\ outcome' = outcome
                /\ leaked' = leaked
                /\ IF now' < xch.deadline
                   THEN pc' = "read" /\ xch'.writer_open
                   ELSE pc' = "wait_closed"
          /\ ((\E i \in 1..Len(xch.received) : MalformedLine(xch.received[i]))
              /\ ~MalformedLine(LineRead)
              /\ (snd.accept_commands.some
                  => Strip(FrameFields(LineRead)[4]) \in snd.accept_commands.tags))
             => /\ xch'.found
                /\ xch'.command = Strip(FrameFields(LineRead)[4])
                /\ xch'.argument = Strip(FrameFields(LineRead)[5])
                /\ pc' = "wait_closed"
                /\ io' = io]_vars

\* A line with a wrong start marker, then the frame, some time after the
\* request: the first exchange has found the frame.
C29_Witness ==
    /\ pc = "wait_closed"
    /\ xch.found
    /\ Len(xch.received) = 2
    /\ Head(xch.received[1]) = "!"
    /\ xch.argument = FreshList(GVALL)
    /\ snd.attempt = 1
    /\ now > 0

\* C30: a read is pending only before the deadline of its exchange; the
\* deadline stays as it was set while lines are read; after a skipped line
\* that is read when the deadline has passed no read follows: the writer is
\* closed and the exchange raises, which the dispatcher answers with its
\* backoff sleep, or after the third attempt by raising the error.
C30_DeadlineFixed ==
    /\ [](pc = "read" => now < xch.deadline)
    /\ [][(pc = "read" /\ pc' \in {"read", "wait_closed"})
          => xch'.deadline = xch.deadline]_vars
    /\ [][(/\ pc = "read"
           /\ Len(xch'.received) = Len(xch.received) + 1
           /\ ~xch'.found
           /\ now' >= xch.deadline)
          => pc' = "wait_closed" /\ ~xch'.writer_open]_vars
    /\ [][(pc = "wait_closed" /\ pc' # "wait_closed" /\ ~xch.found)
          => IF snd.attempt < 3
             THEN /\ pc' = "sleep"
                  /\ snd'.last_error.attempt = snd.attempt
                  /\ snd'.last_error.kind \in
                         {"NoExpectedReply", "InvalidFrame", "EmptyReply", "TcpFailed"}
             ELSE /\ pc' = "idle"
                  /\ outcome'.status = "raised"
                  /\ outcome'.err.attempt = 3]_vars

\* Two skipped lines, the second read at the deadline: the writer is closed.
C30_Witness ==
    /\ pc = "wait_closed"
    /\ ~xch.found
    /\ Len(xch.received) = 2
    /\ now = xch.deadline
    /\ ~xch.writer_open
    /\ xch.raw # <<>>

\* C31: the frame an exchange of _command_expect finds, and so the frame
\* _send returns to it, has the command tag reply_command, whatever
\* unsolicited frames the device sends; no call ends with the unexpected
\* reply error.
C31_ReturnedTagIsExpected ==
    /\ []((xch.found /\ snd.via = "_command_expect")
          => xch.command = snd.reply_command)
    /\ [](outcome.err.kind # "UnexpectedReply")
    /\ [][(pc = "wait_closed" /\ pc' = "idle" /\ outcome'.status = "ok")
          => xch.found /\ xch.command = snd.reply_command]_vars

\* A set volume command whose exchange passed over an "MU" push and found
\* the echo.
C31_Witness ==
    /\ pc = "wait_closed"
    /\ xch.found
    /\ snd.via = "_command_expect"
    /\ snd.reply_command = SV \o <<"1">>
    /\ Len(xch.received) = 2
    /\ xch.received[1] = FrameLine(<<"M", "U">>, <<"1">>)
    /\ xch.command = SV \o <<"1">>

\* The errors a driver raises about a reply it has received.
ApiErrorKinds ==
    {"EmptyList", "TooFewValues", "InvalidVolume", "UnexpectedReply",
     "UnexpectedRawReply"}

\* The phase that follows a phase of async_get_state.
NextPhase(phase) ==
    CASE phase = "volume" -> "source"
      [] phase = "source" -> "mute"
      [] phase = "mute" -> "firmware"

\* C32: a command whose exchange returned a frame is not sent again and no
\* sleep follows, whatever the frame holds: a raw call ends in that step,
\* with the unexpected-reply error when the tag is another one, and a list
\* read of get_state is followed by the first attempt of the next command.
\* The step in which a driver raises an error about a received reply ends
\* the call with that error; nothing is pending afterwards.
C32_ApiErrorNotRetried ==
    /\ [][(pc = "wait_closed" /\ pc' # "wait_closed" /\ xch.found /\ ~AttemptRaises)
          => /\ pc' # "sleep"
             /\ snd.via = "async_send_raw"
                => /\ pc' = "idle"
                   /\ io' = io
                   /\ io.opens = snd.attempt
                   /\ IF xch.command = snd.command
                      THEN outcome'.status = "ok"
                      ELSE /\ outcome'.status = "raised"
                           /\ outcome'.err.kind = "UnexpectedRawReply"
             /\ (call.op = "get_state" /\ drv.phase \in BulkPhases)
                => /\ pc' = "connect"
                   /\ snd'.command = ListCommand(NextPhase(drv.phase)).command
                   /\ snd'.attempt = 1
                   /\ io'.opens = 0
                   /\ io'.sleeps = <<>>]_vars
    /\ [][(outcome' # outcome /\ outcome'.err.kind \in ApiErrorKinds)
          => /\ pc' = "idle"
             /\ outcome'.status = "raised"
             /\ call' = NoCall
             /\ snd' = NoSnd
             /\ Len(io'.sleeps) <= Len(io.sleeps)]_vars

\* get_state has raised for a volume list without a number although its
\* later commands were answered.
C32_Witness ==
    /\ pc = "idle"
    /\ outcome.call.op = "get_state"
    /\ outcome.status = "raised"
    /\ outcome.err.kind = "InvalidVolume"
    /\ snd = NoSnd

\* C33: the stored state changes only in the step in which a refresh of
\* the coordinator ends as a successful update, and is then the state that
\* refresh has read; no step of a mutation, a raw command or a trigger, and
\* no failed refresh, changes it.
C33_DataWrittenByPollOnly ==
    [][data' # data
       => /\ call.op \in {"refresh", "xmp_refresh"}
          /\ pc' = "idle"
          /\ outcome'.status = "ok"
          /\ last_update_success'
          /\ data'.present
          /\ call.op = "refresh" => data' = DataOf(outcome'.state)
          /\ call.op = "xmp_refresh" => data' = XmpDataOf(outcome'.state)]_vars

\* The source of zone 1 was set without a refresh after an earlier poll: the
\* device has the new source, the stored state the old one.
C33_Witness ==
    /\ pc = "idle"
    /\ outcome.call.op = "set_zone_source"
    /\ ~outcome.call.refresh
    /\ outcome.status = "ok"
    /\ data.present
    /\ dev[1].source = <<"2">>
    /\ data.zones[1].source = <<"1">>

\* C34: a setter that runs while a trigger of the button is in flight
\* changes neither the running call nor what it has written; every frame of
\* the call and the description synthesized for "+" hold the action and
\* contact read when the button was pressed; and the step that stores the
\* description leaves the action and contact the setter has stored.
C34_SetterDuringTrigger ==
    /\ [][(TriggerInFlight /\ fmp_trigger_state' # fmp_trigger_state /\ pc' = pc)
          => /\ call' = call
             /\ snd' = snd
             /\ io' = io
             /\ fmp_trigger_state'[call.zone].description =
                    fmp_trigger_state[call.zone].description]_vars
    /\ [](TriggerInFlight
          => \A i \in 1..Len(io.written) :
                DeviceRequest(io.written[i]).argument =
                    IntToStr(call.value) \o <<Caret>>
                    \o (IF call.source = <<"s", "t", "a", "r", "t">>
                        THEN <<"1">> ELSE <<"0">>))
    /\ [][(TriggerInFlight /\ call'.op = "xmp_refresh")
          => /\ fmp_trigger_state'[call.zone].action =
                    fmp_trigger_state[call.zone].action
             /\ fmp_trigger_state'[call.zone].contact =
                    fmp_trigger_state[call.zone].contact
             /\ xch.argument = <<"+">>
                => fmp_trigger_state'[call.zone].description =
                      Some(<<"T", "r", "i", "g", "g", "e", "r", " ">>
                           \o IntToStr(call.value) \o <<" ">> \o call.source)]_vars

\* The device has acknowledged a start of contact 1; while the exchange was
\* running the settings of the slot were changed to stop and 15.
C34_Witness ==
    /\ TriggerInFlight
    /\ pc = "wait_closed"
    /\ xch.found
    /\ xch.argument = <<"+">>
    /\ call.zone = 1
    /\ call.value = 1
    /\ call.source = FMP_TRIGGER_ACTION_START
    /\ fmp_trigger_state[1].action = FMP_TRIGGER_ACTION_STOP
    /\ fmp_trigger_state[1].contact = 15

\* C35: a trigger of the button writes at most 3 frames, one per attempt
\* that was connected, all of them the SSTR{slot} frame of the same
\* argument; a frame is written after an earlier one only when the attempt
\* that wrote the earlier one has failed; nothing keeps the device from
\* getting the command with every frame.
C35_TriggerWrittenUpToThreeTimes ==
    /\ []((call.op = "set_slot_trigger" /\ call.refresh)
          => /\ Len(io.written) <= 3
             /\ Len(io.written) <= snd.attempt
             /\ \A i \in 1..Len(io.written) :
                   io.written[i] =
                       Payload(SSTR \o IntToStr(call.zone),
                               IntToStr(call.value) \o <<Caret>>
                               \o (IF call.flag THEN <<"1">> ELSE <<"0">>)))
    /\ [][(/\ call.op = "set_slot_trigger"
           /\ call.refresh
           /\ call' = call
           /\ Len(io'.written) = Len(io.written) + 1)
          => /\ pc = "connect"
             /\ pc' = "drain"
             /\ io.written # <<>>
                => /\ snd.attempt > 1
                   /\ snd.last_error.kind \in ExchangeErrorKinds
                   /\ snd.last_error.attempt = snd.attempt - 1]_vars
    /\ [][(/\ call.op = "set_slot_trigger"
           /\ call.refresh
           /\ pc = "drain"
           /\ pc' = "read")
          => dev' = DeviceApply(dev, io.written[Len(io.written)])]_vars

\* The third attempt of a trigger has found the reply: the device got the
\* frame three times.
C35_Witness ==
    /\ call.op = "set_slot_trigger"
    /\ call.refresh
    /\ pc = "wait_closed"
    /\ xch.found
    /\ snd.attempt = 3
    /\ Len(io.written) = 3
    /\ io.written[1] = io.written[3]

\* async_get_state of the matrix mixer is running.
InGetState == call.op \in {"get_state", "refresh"} /\ pc # "idle"

\* C36: get_state starts with GVALL; a command of get_state follows another
\* only in the order GVALL, GRALL, GMALL, GSV, starts with its first
\* attempt, and only after the exchange of the one before has returned a
\* frame or its third attempt has raised; every frame written belongs to
\* the current command; and when the third attempt of a list command raises
\* and there is no history, get_state ends there.
C36_CommandOrder ==
    /\ [][(pc = "idle" /\ call'.op \in {"get_state", "refresh"})
          => snd'.command = <<"G", "V", "A", "L", "L">> /\ snd'.attempt = 1]_vars
    /\ [][(InGetState /\ pc' # "idle" /\ snd'.command # snd.command)
          => /\ <<snd.command, snd'.command>> \in
                   {<<<<"G", "V", "A", "L", "L">>, <<"G", "R", "A", "L", "L">>>>,
                    <<<<"G", "R", "A", "L", "L">>, <<"G", "M", "A", "L", "L">>>>,
                    <<<<"G", "M", "A", "L", "L">>, <<"G", "S", "V">>>>}
             /\ snd'.attempt = 1
             /\ pc' = "connect"
             /\ io'.written = <<>>
             /\ \/ pc = "wait_closed" /\ xch.found
                \/ snd.attempt = 3 /\ drv.previous_zones # <<>>]_vars
    /\ [](InGetState
          => \A i \in 1..Len(io.written) :
                DeviceRequest(io.written[i]).command = snd.command)
    /\ [][(/\ InGetState
           /\ drv.phase \in BulkPhases
           /\ drv.previous_zones = <<>>
           /\ pc' # pc
           /\ ~(pc = "wait_closed" /\ xch.found)
           /\ snd.attempt = 3
           /\ pc' \notin {"drain", "read", "wait_closed"})
          => /\ pc' = "idle"
             /\ snd' = NoSnd
             /\ outcome'.status \in {"raised", "update_failed"}]_vars

\* The mute read was replaced from the history after three attempts and
\* the firmware command is at its last attempt.
C36_Witness ==
    /\ call.op = "get_state"
    /\ pc = "connect"
    /\ drv.phase = "firmware"
    /\ snd.command = GSV
    /\ snd.attempt = 3
    /\ drv.fallbacks = {"mute"}

\* C37: when the driver call of a trigger of the button raises, the call
\* ends with that error, no refresh follows, and the description, action
\* and contact of every slot stay as they are; while a trigger is running
\* the description changes only in the step in which its exchange returns
\* the reply.
C37_FailedTriggerKeepsState ==
    /\ [][(/\ call.op = "set_slot_trigger"
           /\ call.refresh
           /\ pc' # pc
           /\ ~(pc = "wait_closed" /\ xch.found)
           /\ snd.attempt = 3
           /\ pc' \notin {"drain", "read", "wait_closed"})
          => /\ pc' = "idle"
             /\ outcome'.status = "raised"
             /\ outcome'.call.op = "set_slot_trigger"
             /\ outcome'.err.kind \in ExchangeErrorKinds
             /\ outcome'.err.attempt = 3
             /\ fmp_trigger_state' = fmp_trigger_state
             /\ data' = data]_vars
    /\ [][(/\ call.op = "set_slot_trigger"
           /\ \E slot \in Slots :
                 fmp_trigger_state'[slot].description
                     # fmp_trigger_state[slot].description)
          => /\ pc = "wait_closed"
             /\ xch.found
             /\ call'.op = "xmp_refresh"]_vars
    /\ []((pc = "idle" /\ outcome.call.op = "set_slot_trigger")
          => outcome.status = "raised")

\* A trigger has failed after its frame was written three times; the
\* description of an earlier trigger and the action set since are kept.
C37_Witness ==
    /\ pc = "idle"
    /\ outcome.call.op = "set_slot_trigger"
    /\ outcome.status = "raised"
    /\ Len(io.written) = 3
    /\ fmp_trigger_state[1].action = FMP_TRIGGER_ACTION_STOP
    /\ fmp_trigger_state[1].description =
           Some(<<"T", "r", "i", "g", "g", "e", "r", " ", "1", " ",
                  "s", "t", "a", "r", "t">>)

\* C38: whatever its second and third fields are, a line read that has at
\* least 6 fields, the first field "#" and, when accept_commands are given,
\* a command tag among them, is the frame the exchange finds, and the
\* command returns its argument.
C38_CorrelatedByTagOnly ==
    /\ [][(/\ pc = "read"
           /\ Len(xch'.received) = Len(xch.received) + 1
           /\ Len(FrameFields(LineRead)) >= 6
           /\ FrameFields(LineRead)[1] = <<Hash>>
           /\ snd.accept_commands.some
              => Strip(FrameFields(LineRead)[4]) \in snd.accept_commands.tags)
          => /\ xch'.found
             /\ pc' = "wait_closed"
             /\ xch'.command = Strip(FrameFields(LineRead)[4])
             /\ xch'.argument = Strip(FrameFields(LineRead)[5])]_vars
    /\ [][(pc = "wait_closed" /\ pc' = "idle" /\ xch.found
           /\ xch.command = snd.reply_command)
          => outcome'.status = "ok" /\ outcome'.argument = xch.argument]_vars

\* The exchange of GVALL has found a frame whose destination and source
\* fields are not those of the request.
C38_Witness ==
    /\ pc = "wait_closed"
    /\ xch.found
    /\ snd.command = GVALL
    /\ xch.command = VALL
    /\ xch.argument = FreshList(GVALL)
    /\ FrameFields(xch.raw)[2] = <<"z", "z">>
    /\ FrameFields(xch.raw)[3] = <<"Q", "9">>
    /\ FrameFields(io.written[1])[2] # FrameFields(xch.raw)[3]
    /\ FrameFields(io.written[1])[3] # FrameFields(xch.raw)[2]

\* C39: a state get_state(zone_count, ...) returns has exactly the zones
\* 1..zone_count, and zone n is made of the n-th non-blank token of each
\* list; tokens after the first zone_count ones have no effect.
C39_ExactlyZoneCountZones ==
    (Built /\ outcome.status = "ok")
    => /\ DOMAIN outcome.state.zones = 1..outcome.call.value
       /\ \A zone \in 1..outcome.call.value :
             /\ outcome.state.zones[zone].volume_db =
                    ParseInt(NonBlankStripped(Items(drv.vol))[zone]).value
             /\ outcome.state.zones[zone].source =
                    NonBlankStripped(Items(drv.routing))[zone]
             /\ outcome.state.zones[zone].mute =
                    (NonBlankStripped(Items(drv.mute))[zone] = <<"1">>)
             /\ DOMAIN outcome.state.zones[zone] = {"volume_db", "source", "mute"}

\* One zone asked, lists of three tokens: the state has zone 1 only.
C39_Witness ==
    /\ Built
    /\ outcome.status = "ok"
    /\ outcome.call.value = 1
    /\ TokenCount(drv.vol) = 3
    /\ TokenCount(drv.routing) = 3
    /\ TokenCount(drv.mute) = 3
    /\ Len(outcome.state.zones) = 1

(***************************************************************************)
(* Setting up and unloading config entries (__init__.py, services.py).     *)
(* Each handler is one step: it has no await between reading and writing   *)
(* hass.data[DOMAIN] or the service registry that another handler could    *)
(* interleave with in a way that changes the result.                       *)
(***************************************************************************)
HasService(h) == h.registrations > 0

\* _async_register_static: nothing when already registered or when there
\* is no http component; otherwise the flag is stored in hass.data[DOMAIN].
AsyncRegisterStatic(h) ==
    IF h.static_registered THEN h
    ELSE IF ~h.http THEN h
    ELSE [h EXCEPT !.static_registered = TRUE]

\* async_setup_services: registers the service unless it is registered.
AsyncSetupServices(h) ==
    IF HasService(h) THEN h
    ELSE [h EXCEPT !.registrations = @ + 1]

\* async_unload_services: removes the service when it is registered.
AsyncUnloadServices(h) ==
    IF HasService(h) THEN [h EXCEPT !.registrations = 0] ELSE h

\* not hass.data[DOMAIN]: the dictionary has no key at all, neither an
\* entry id nor "_static_registered".
DomainDataEmpty(h) == h.entries = {} /\ ~h.static_registered

\* async_setup_entry, for an entry Home Assistant is about to load.
AsyncSetupEntry(h, entry) ==
    LET registered == AsyncRegisterStatic(h)
        stored == [registered EXCEPT !.entries = @ \cup {entry}]
        served == AsyncSetupServices(stored)
    IN  [served EXCEPT !.state[entry] = "loaded"]

\* async_unload_entry, for a loaded entry; unload_ok is what
\* async_unload_platforms returned.  Home Assistant marks an entry whose
\* unload returned False as failed and does not set it up again.
AsyncUnloadEntry(h, entry, unload_ok) ==
    LET popped == IF unload_ok THEN [h EXCEPT !.entries = @ \ {entry}] ELSE h
        unloaded == IF DomainDataEmpty(popped) THEN AsyncUnloadServices(popped)
                    ELSE popped
    IN  [unloaded EXCEPT !.state[entry] =
                             IF unload_ok THEN "not_loaded" ELSE "failed_unload"]

coordinatorVars == <<pc, call, snd, xch, drv, io, outcome, data,
                     last_update_success, dev, now, leaked, down, model,
                     fmp_trigger_state>>

SetupEntry(entry) ==
    /\ hass.state[entry] = "not_loaded"
    /\ hass' = AsyncSetupEntry(hass, entry)
    /\ UNCHANGED coordinatorVars

UnloadEntry(entry, unload_ok) ==
    /\ hass.state[entry] = "loaded"
    /\ hass' = AsyncUnloadEntry(hass, entry, unload_ok)
    /\ UNCHANGED coordinatorVars

\* Home Assistant with and without the http component.
InitServices ==
    /\ pc = "idle"
    /\ call = NoCall
    /\ snd = NoSnd
    /\ xch = NoXch
    /\ drv = NoDrv
    /\ io = NoIO
    /\ outcome = NoOutcome
    /\ data = NoData
    /\ last_update_success = TRUE
    /\ dev = SceneA
    /\ now = 0
    /\ leaked = 0
    /\ down = {}
    /\ model = MODEL_MTX48
    /\ fmp_trigger_state = NoTriggerState
    /\ \E http \in BOOLEAN : hass = [NoHass EXCEPT !.http = http]

NextServices ==
    \/ \E entry \in EntryIds : SetupEntry(entry)
    \/ \E entry \in EntryIds : UnloadEntry(entry, TRUE)
    \/ \E entry \in EntryIds : UnloadEntry(entry, FALSE)

SpecServices == InitServices /\ [][NextServices]_vars

\* The entries that are set up: loaded, or still in place after an unload
\* that failed.
EntriesSetUp(h) == {entry \in EntryIds : h.state[entry] # "not_loaded"}

\* C40: over any sequence of entry setups and unloads the send_raw_command
\* service is registered at most once while at least one entry is set up,
\* and it is removed when the last remaining entry has been unloaded, so
\* that it is registered exactly when an entry is set up.
C40_ServiceFollowsEntries ==
    /\ hass.registrations <= 1
    /\ HasService(hass) <=> EntriesSetUp(hass) # {}

====
